---- MODULE Spec2Model ----
(***************************************************************************)
(* Voice-call bridge: the media-stream handler's per-stream TTS queue, the *)
(* media WebSocket / stream session lifecycle, and the OpenAI realtime     *)
(* session (connect, session.update handshake, close and reconnect).       *)
(*                                                                         *)
(* One stream (one streamSid) and the realtime session of its current      *)
(* stream session are modelled: every map of MediaStreamHandler is keyed   *)
(* by streamSid and no handler touches another key.                        *)
(*                                                                         *)
(* Atomicity follows the Node.js event loop: one action is one macrotask   *)
(* (a timer, a socket event, a call from the provider adapter) together    *)
(* with the promise continuations it makes runnable.                       *)
(***************************************************************************)
EXTENDS Integers, Sequences, FiniteSets, TLC

\* ------------------------------------------------------------------ bounds
MaxOps == 3
MaxChunks == 2

Ops == 1..MaxOps

VARIABLES
    \* --- MediaStreamHandler, TTS queue of the stream
    nextOp,        \* number of queueTts calls made so far (entries are 1..nextOp)
    ttsQueue,      \* ttsQueues.get(streamSid), absent = <<>>
    ttsPlaying,    \* ttsPlaying.get(streamSid), absent = FALSE
    ttsActive,     \* ttsActiveControllers.get(streamSid): {} or {entry}
    aborted,       \* entries whose controller.signal.aborted is true
    promise,       \* promise returned by queueTts: none / pending / resolved / rejected
    pc,            \* position of each entry's playFn: idle / synth / sleep / returned / threw
    left,          \* chunks of the entry's synthesized audio not yet handed to sendAudio
    frames,        \* media frames written to the media socket, per entry
    clearedOps,    \* entries that were pending (in flight or queued) when clearTtsQueue
                   \* was called and whose promise has not settled since
    \* --- MediaStreamHandler, connection and session
    mediaWs,       \* the carrier's media WebSocket: none / open / closed
    hasSession,    \* sessions.has(streamSid) (and the connection's `session` variable)
    disconnects,   \* config.onDisconnect has been invoked for the current session
    \* --- OpenAIRealtimeSession of the current stream session
    rtMode,        \* provider mode: transcription / conversation
    rtWs,          \* this.ws: none / connecting / open / closed
    connected,     \* this.connected
    closed,        \* this.closed
    reconnectAttempts,
    reconnecting,  \* attemptReconnect is sleeping in its backoff delay
    connectPromise,\* promise returned by connect(): none / pending / resolved / rejected
    sessionUpdatedResolve, \* this.sessionUpdatedResolve is set (the wait is pending)
    timer5,        \* the 5 s safety timer: off / armed / fired
    timer10,       \* the 10 s timer of connect()'s doConnect: off / armed / fired
    acked,         \* a session.updated event has been handled
    sentEvents,    \* types of the client events written to the realtime socket
    firstConnect,  \* this.ws is the socket opened by connect() (not by a reconnect)
    reconnectDelay,\* ms of the backoff delay attemptReconnect last went to sleep for
    attemptsMade,  \* doConnect calls made by attemptReconnect since the socket last opened
    \* --- call record (Call Manager)
    callState,
    endReason,
    stateHistory,  \* the states the record has been in, oldest first
    endedAt,       \* 0 (unset) or the number of the transition that ended the call
    endedHookCalls, \* invocations of the on-call-ended hook for the call
    transitionError, \* the last requested transition was rejected (InvalidTransition)
    \* --- OpenAIRealtimeSession, assistant transcript of the current response
    pendingAssistantTranscript, \* this.pendingAssistantTranscript: empty / blank / text
    inResponse,    \* a response.created has been received, its response.done not yet
    doneEvents,    \* types of the *.done events received for the current response
    finals,        \* calls of onAssistantTranscriptCallback for the current response
    \* --- VoximplantProvider, per-call bookkeeping (maps keyed by callId or providerCallId)
    streamAuthTokens,           \* absent = <<>>
    callStreamMap,              \* absent = "none"
    providerCallIdToCallId,     \* absent = "none"
    providerCallIdToControlUrl, \* absent = "none"
    callIdToControlUrl,         \* absent = "none"
    \* --- VoximplantProvider, outcome of the last isValidStreamToken call
    tokenCheck,    \* [callKey, token, result]: result is none / true / false / throw
    control,       \* the tool verb in progress or last made, see InitControl
    \* --- VoximplantProvider options and the webhook endpoint
    options,       \* this.options: [skipVerification, webhookSecret], unset secret = <<>>
    webhookResult, \* last webhook request: [provided, ok, parsed, status], and
                   \* odd, which flips with every request
    \* --- MediaStreamHandler, acceptance of a stream
    streamConfig,  \* which of config.resolveCallIdByToken / shouldAcceptStream are set
    startOutcome,  \* last start handled: [callId, accepted, code] (callId resolved,
                   \* shouldAcceptStream's answer, close code sent or 0), and odd
    \* --- VoximplantProvider, management API authentication
    now,           \* Math.floor(Date.now() / 1000)
    jwtConfig,     \* [serviceAccount, refreshSkewSec]: managementServiceAccount is set,
                   \* managementJwtRefreshSkewSec
    cachedManagementJwt, \* <<>> (null) or <<token, exp>>
    lastJwtCall,   \* last getManagementJwt call: [at, forced, token], and odd
    api,           \* the managementApiRequest in progress or last made:
                   \* [pc, requests, first, last, result], first and last being the
                   \* status of the first and of the latest response (0 = none)
    \* --- gateway, createHooksRequestHandler
    hookNowMs,        \* Date.now()
    hookAuthFailures, \* the Map in insertion order: sequence of
                      \* [key, count, windowStartedAtMs]
    hookResult,       \* last request of the observed client: [status, retryAfter,
                      \* afterClear] (status 200: the token was right), and odd
    observed,         \* the observed client's failures as the client counts them:
                      \* [active, start, n] is its window and the failures in it,
                      \* evicted: a live entry of it has been dropped for a new
                      \* key, cleared: its last request cleared it while throttled
    \* --- gateway, proxyVoiceCallHttpRequest
    proxy,            \* the request being proxied or last proxied, see InitProxy
    \* --- voice-call plugin, the on-call-ended callback
    delivery,         \* the outcome delivery of the call, see InitDelivery
    \* --- Call Manager records and the runtime around them
    calls,            \* state of each call id: absent / starting / live / ended
    lastInitiate,     \* last initiateCall: [result, liveBefore], and odd
    runtime,          \* the runtime: [pc, tunnelStopped, liveAtTunnelStop,
                      \* liveAtClose]
    \* --- voice-call plugin, tools and helpers
    calendar,         \* the buildGoogleCalendarUrl call: [booking, url, built]
    task,             \* the sanitizeTask call: [input, output, twice, done]
    mapped,           \* the mapEndReason call: [raw, reason, done]
    callHistory,      \* the get_call_history call: the records read, the tool's
                      \* sessionKey, the parameters and the calls returned
    \* --- MediaStreamHandler, the message handler of one connection
    conn,             \* see InitConn
    \* --- OpenAIRealtimeSession, waitForTranscript
    transcriptWait    \* see InitTranscriptWait

ttsVars == <<nextOp, ttsQueue, ttsPlaying, ttsActive, aborted, promise, pc,
             left, frames, clearedOps>>
brVars == <<mediaWs, hasSession, disconnects>>
rtVars == <<rtMode, rtWs, connected, closed, reconnectAttempts, reconnecting,
            connectPromise, sessionUpdatedResolve, timer5, timer10, acked,
            sentEvents, firstConnect>>
rcVars == <<reconnectDelay, attemptsMade>>
callVars == <<callState, endReason, stateHistory, transitionError, endedAt,
              endedHookCalls>>
asVars == <<pendingAssistantTranscript, inResponse, doneEvents, finals>>
adapterMaps == <<streamAuthTokens, callStreamMap, providerCallIdToCallId,
                 providerCallIdToControlUrl, callIdToControlUrl>>
\* the components below the stream, each with its own specification
whVars == <<options, webhookResult>>
acceptVars == <<streamConfig, startOutcome>>
jwtVars == <<now, jwtConfig, cachedManagementJwt, lastJwtCall, api>>
\* the gateway and the plugin around the call runtime
hookVars == <<hookNowMs, hookAuthFailures, hookResult, observed>>
outVars == <<delivery>>
mgrVars == <<calls, lastInitiate, runtime>>
toolVars == <<calendar, task, mapped, callHistory, conn, transcriptWait>>
gwVars == <<hookVars, proxy, outVars, mgrVars, toolVars>>
otherVars == <<asVars, adapterMaps, tokenCheck, control, whVars, acceptVars, jwtVars, gwVars>>
streamVars == <<ttsVars, brVars, rtVars, rcVars, callVars>>
coreVars == <<streamVars, asVars, adapterMaps, tokenCheck, control, whVars, acceptVars,
              jwtVars>>
vars == <<streamVars, otherVars>>

\* ------------------------------------------------------------ TTS queue
\* entries whose playFn has been invoked and has not settled
Running == {o \in Ops : pc[o] \in {"synth", "sleep"}}

\* sendToStream / getOpenSession: a frame is written only to an open session
StreamOpen == hasSession /\ mediaWs = "open"

\* mutant: the catch block swallows every playback error
SettleOutcome_Swallow(threw, isAborted) == "resolved"

\* processQueue, lines 2564-2573: how the entry's promise settles
SettleOutcome(threw, isAborted) ==
    IF ~threw THEN "resolved"
    ELSE IF isAborted THEN "resolved" ELSE "rejected"

\* processQueue, the while loop from its top with queue q and playing flag pl:
\* idle when the queue is empty, else shift the next entry and invoke its playFn
\* (which runs up to its first await, the synthesis). pcs is pc so far.
ProcessQueueLoop(q, pl, pcs) ==
    IF q = <<>>
    THEN /\ ttsPlaying' = FALSE
         /\ ttsActive' = {}
         /\ ttsQueue' = q
         /\ pc' = pcs
    ELSE /\ ttsPlaying' = pl
         /\ ttsActive' = {Head(q)}
         /\ ttsQueue' = Tail(q)
         /\ pc' = [pcs EXCEPT ![Head(q)] = "synth"]

\* processQueue resumed after `await entry.playFn(...)` settled for entry o
Settle(o, threw) ==
    /\ promise' = [promise EXCEPT ![o] = SettleOutcome(threw, o \in aborted)]
    /\ ProcessQueueLoop(ttsQueue, ttsPlaying,
                        [pc EXCEPT ![o] = IF threw THEN "threw" ELSE "returned"])
    /\ clearedOps' = clearedOps \ {o}

\* playTtsViaStream's playFn at the top of its chunk loop for entry o, with
\* n chunks of audio left: send one chunk and sleep, or leave the loop and return
ChunkLoop(o, n) ==
    IF o \notin aborted /\ n > 0
    THEN /\ left' = [left EXCEPT ![o] = n - 1]
         /\ frames' = [frames EXCEPT ![o] = IF StreamOpen THEN @ + 1 ELSE @]
         /\ pc' = [pc EXCEPT ![o] = "sleep"]
         /\ UNCHANGED <<promise, ttsQueue, ttsPlaying, ttsActive, clearedOps>>
    ELSE /\ Settle(o, FALSE)
         /\ left' = [left EXCEPT ![o] = 0]
         /\ UNCHANGED frames

QueueTts ==
    /\ nextOp < MaxOps
    /\ LET o == nextOp + 1
           q == Append(ttsQueue, o)
       IN /\ nextOp' = o
          /\ promise' = [promise EXCEPT ![o] = "pending"]
          /\ IF ~ttsPlaying
             THEN ProcessQueueLoop(q, TRUE, pc)
             ELSE /\ ttsQueue' = q
                  /\ UNCHANGED <<ttsPlaying, ttsActive, pc>>
    /\ UNCHANGED <<aborted, left, frames, clearedOps>>
    /\ UNCHANGED <<brVars, rtVars, rcVars, callVars, otherVars>>

\* synthesizeForTelephony settles for entry o: it throws, or it yields audio of
\* n chunks and the playFn enters its chunk loop
SynthDone(o, n, fails) ==
    /\ pc[o] = "synth"
    /\ IF fails
       THEN Settle(o, TRUE) /\ UNCHANGED <<left, frames>>
       ELSE ChunkLoop(o, n)
    /\ UNCHANGED <<nextOp, aborted>>
    /\ UNCHANGED <<brVars, rtVars, rcVars, callVars, otherVars>>

\* the 20 ms pacing sleep of entry o ends
SleepDone(o) ==
    /\ pc[o] = "sleep"
    /\ ChunkLoop(o, left[o])
    /\ UNCHANGED <<nextOp, aborted>>
    /\ UNCHANGED <<brVars, rtVars, rcVars, callVars, otherVars>>

\* clearTtsQueue: empty the queue, abort the active controller, send `clear`
ClearTtsQueue ==
    /\ ttsQueue' = <<>>
    /\ aborted' = aborted \cup ttsActive
    /\ clearedOps' = clearedOps \cup {o \in Ops : promise[o] = "pending"}
    /\ UNCHANGED <<nextOp, ttsPlaying, ttsActive, promise, pc, left, frames>>
    /\ UNCHANGED <<brVars, rtVars, rcVars, callVars, otherVars>>

\* clearTtsState: drop the queue, abort and forget the active controller,
\* forget the playing flag
ClearTtsState ==
    /\ ttsQueue' = <<>>
    /\ aborted' = aborted \cup ttsActive
    /\ ttsActive' = {}
    /\ ttsPlaying' = FALSE
    /\ UNCHANGED <<nextOp, promise, pc, left, frames, clearedOps>>

\* ------------------------------------------------------- call record
TerminalStates == {"hangup-bot", "hangup-user", "timeout", "busy", "no-answer",
                   "voicemail", "failed", "completed"}

CallStates == {"initiating", "ringing", "answered", "active", "speaking", "listening",
               "ending"} \cup TerminalStates

\* terminal states reachable from every non-terminal state
AnyTimeTerminals == {"busy", "no-answer", "voicemail", "timeout", "failed", "completed"}

\* mutant: a terminal state is accepted from every state, terminal ones included
ValidTransition_FromTerminal(from, to) ==
    \/ <<from, to>> \in {<<"initiating", "ringing">>, <<"ringing", "answered">>,
                         <<"answered", "active">>, <<"active", "speaking">>,
                         <<"active", "listening">>, <<"speaking", "listening">>,
                         <<"listening", "speaking">>, <<"active", "ending">>,
                         <<"ending", "hangup-bot">>, <<"ending", "hangup-user">>}
    \/ (to \in AnyTimeTerminals /\ from # to)

\* the edges of the call state machine
ValidTransition(from, to) ==
    \/ <<from, to>> \in {<<"initiating", "ringing">>, <<"ringing", "answered">>,
                         <<"answered", "active">>, <<"active", "speaking">>,
                         <<"active", "listening">>, <<"speaking", "listening">>,
                         <<"listening", "speaking">>, <<"active", "ending">>,
                         <<"ending", "hangup-bot">>, <<"ending", "hangup-user">>}
    \/ (from \notin TerminalStates /\ to \in AnyTimeTerminals)

\* mutant: endedAt is left for a later step
EndedAtOn_Unset(to, at, prev) == prev

\* endedAt after an accepted transition to `to`, the `at`-th of the record
EndedAtOn(to, at, prev) == IF to \in TerminalStates THEN at ELSE prev

\* mutant: the hook fires on every terminal event
HookFiresOn_EveryTerminalEvent(from, to) == to \in TerminalStates

\* the on-call-ended hook fires when a record in state `from` is asked to move
\* to `to`: on the transition that ends the call
HookFiresOn(from, to) == ValidTransition(from, to) /\ to \in TerminalStates

\* the Call Manager is asked to move the record to state `to`
CallTransition(to) ==
    /\ endedHookCalls' = IF HookFiresOn(callState, to) THEN endedHookCalls + 1
                          ELSE endedHookCalls
    /\ IF ValidTransition(callState, to)
       THEN /\ callState' = to
            /\ endReason' = IF to \in TerminalStates THEN to ELSE endReason
            /\ stateHistory' = Append(stateHistory, to)
            /\ transitionError' = FALSE
            /\ endedAt' = EndedAtOn(to, Len(stateHistory), endedAt)
       ELSE /\ transitionError' = TRUE
            /\ UNCHANGED <<callState, endReason, stateHistory, endedAt>>

\* the Call Manager's reaction to the bridge's onDisconnect(callId)
CallOnDisconnect ==
    IF callState \in TerminalStates
    THEN UNCHANGED callVars
    ELSE CallTransition("completed")

MaxTransitions == 7

\* an event or a tool verb asks for a transition of the record
TransitionRequest(to) ==
    /\ Len(stateHistory) <= MaxTransitions
    /\ CallTransition(to)
    /\ UNCHANGED <<ttsVars, brVars, rtVars, rcVars, otherVars>>

\* -------------------------------------------------- realtime session
MAX_RECONNECT_ATTEMPTS == 5

RtModes == {"transcription", "conversation"}

\* mutant: the close handler reconnects in every mode
ReconnectsOnClose_Always(mode) == TRUE

\* close handler, lines 1192-1204: which mode goes on to attemptReconnect
ReconnectsOnClose(mode) == mode # "conversation"

\* mutant: response.create is sent together with session.update
WaitsForSessionUpdated_Not == FALSE

\* configureConversationSession, lines 1251-1311: the first response.create
\* is chained on the sessionUpdated promise instead of being sent at once
WaitsForSessionUpdated == TRUE

\* mutant: doConnect resolves before the socket has opened
NewConnectPromise_Resolved == "resolved"

\* doConnect, line 1148: the promise handed back by connect() starts pending
\* and is settled by the open / error / timeout handlers
NewConnectPromise == "pending"

\* sendEvent of response.create from the sessionUpdated continuation
\* (lines 1286-1311, 1464-1468) with socket state ws and closed flag cl
FirstResponse(ws, cl, ev) ==
    IF ~cl /\ ws = "open" THEN ev \cup {"response.create"} ELSE ev

RECONNECT_DELAY_MS == 1000

\* mutant: the delay grows linearly
BackoffDelay_Linear(k) == RECONNECT_DELAY_MS * k

\* attemptReconnect: the delay before the k-th attempt
BackoffDelay(k) == RECONNECT_DELAY_MS * 2 ^ (k - 1)

\* OpenAIRealtimeSession.close()
RtCloseCall ==
    /\ closed' = TRUE
    /\ rtWs' = "none"
    /\ connected' = FALSE
    /\ UNCHANGED <<rtMode, reconnectAttempts, reconnecting, connectPromise,
                   sessionUpdatedResolve, timer5, timer10, acked, sentEvents,
                   firstConnect, rcVars>>

\* the 'close' handler of the realtime socket while the session is not closed
RtCloseHandler ==
    /\ rtWs' = "closed"
    /\ connected' = FALSE
    /\ IF ReconnectsOnClose(rtMode)
       THEN /\ closed' = closed
            /\ IF reconnectAttempts >= MAX_RECONNECT_ATTEMPTS
               THEN UNCHANGED <<reconnectAttempts, reconnecting, reconnectDelay>>
               ELSE /\ reconnectAttempts' = reconnectAttempts + 1
                    /\ reconnectDelay' = BackoffDelay(reconnectAttempts + 1)
                    /\ reconnecting' = TRUE
       ELSE /\ closed' = TRUE
            /\ UNCHANGED <<reconnectAttempts, reconnecting, reconnectDelay>>
    /\ UNCHANGED attemptsMade

\* handleStop: the stream session is torn down
HandleStop ==
    /\ ClearTtsState
    /\ RtCloseCall
    /\ hasSession' = FALSE
    /\ disconnects' = TRUE
    /\ CallOnDisconnect

\* a carrier connects to the media endpoint (handleConnection)
MediaConnect ==
    /\ mediaWs # "open"
    /\ ~hasSession
    /\ mediaWs' = "open"
    /\ UNCHANGED <<hasSession, disconnects>>
    /\ UNCHANGED <<ttsVars, rtVars, rcVars, callVars, otherVars>>

\* createSession: register the session and connect its realtime session
CreateSession ==
    /\ hasSession' = TRUE
    /\ disconnects' = FALSE
    /\ rtWs' = "connecting"
    /\ connected' = FALSE
    /\ closed' = FALSE
    /\ reconnectAttempts' = 0
    /\ reconnecting' = FALSE
    /\ connectPromise' = NewConnectPromise
    /\ sessionUpdatedResolve' = FALSE
    /\ timer5' = "off"
    /\ timer10' = "armed"
    /\ acked' = FALSE
    /\ sentEvents' = {}
    /\ firstConnect' = TRUE
    /\ reconnectDelay' = 0
    /\ attemptsMade' = 0
    /\ UNCHANGED <<rtMode, mediaWs>>
    /\ UNCHANGED <<ttsVars, callVars>>

\* a start message is accepted: createSession, then sttSession.connect()
HandleStart ==
    /\ mediaWs = "open"
    /\ ~hasSession
    /\ CreateSession
    /\ UNCHANGED otherVars

\* ---------------------------------------- media stream, stream acceptance
\* config.resolveCallIdByToken, when set: the call a token was issued for
ResolveCallIdByToken(token) == IF token = "tok-1" THEN "call-1" ELSE "none"

\* mutant: the stream is accepted without asking shouldAcceptStream
StreamAccepted_Unasked(cfg, callId, accepts) == callId # "none"

\* handleStart / handleRawStart: a session is created for callId, `accepts`
\* being what shouldAcceptStream answers
StreamAccepted(cfg, callId, accepts) ==
    callId # "none" /\ (cfg.shouldAcceptStream => accepts)

\* createSession, or ws.close(1008, ...) and no session
AcceptOrClose(callId, accepts) ==
    /\ IF StreamAccepted(streamConfig, callId, accepts)
       THEN /\ CreateSession
            /\ startOutcome' = [callId |-> callId, accepted |-> accepts, code |-> 0,
                                odd |-> ~startOutcome.odd]
       ELSE /\ mediaWs' = "closed"
            /\ startOutcome' = [callId |-> callId, accepted |-> accepts, code |-> 1008,
                                odd |-> ~startOutcome.odd]
            /\ UNCHANGED <<hasSession, disconnects, ttsVars, rtVars, rcVars, callVars>>
    /\ UNCHANGED <<streamConfig, asVars, adapterMaps, tokenCheck, control, whVars, jwtVars, gwVars>>

\* handleStart: a start message naming msgCallId ("none" if it names no call)
\* on a connection whose effective token is `token`
HandleStartMessage(msgCallId, token, accepts) ==
    /\ mediaWs = "open"
    /\ ~hasSession
    /\ AcceptOrClose(IF msgCallId # "none" THEN msgCallId
                     ELSE IF token # "none" /\ streamConfig.resolveCallIdByToken
                     THEN ResolveCallIdByToken(token) ELSE "none",
                     accepts)

\* handleRawStart: the first binary message on a connection without a session
HandleRawStart(token, accepts) ==
    /\ mediaWs = "open"
    /\ ~hasSession
    /\ AcceptOrClose(IF token # "none" /\ streamConfig.resolveCallIdByToken
                     THEN ResolveCallIdByToken(token) ELSE "none",
                     accepts)

\* a stop message arrives on the media socket
StopMessage ==
    /\ mediaWs = "open"
    /\ hasSession
    /\ HandleStop
    /\ UNCHANGED <<mediaWs, otherVars>>

\* the media socket closes
MediaWsClose ==
    /\ mediaWs = "open"
    /\ mediaWs' = "closed"
    /\ IF hasSession
       THEN HandleStop
       ELSE UNCHANGED <<hasSession, disconnects, ttsVars, rtVars, rcVars, callVars>>
    /\ UNCHANGED otherVars

\* the realtime socket opens ('open' handler of doConnect)
RtWsOpen ==
    /\ rtWs = "connecting"
    /\ rtWs' = "open"
    /\ connected' = TRUE
    /\ reconnectAttempts' = 0
    /\ IF rtMode = "conversation"
       THEN /\ sessionUpdatedResolve' = WaitsForSessionUpdated
            /\ timer5' = IF WaitsForSessionUpdated THEN "armed" ELSE timer5
            /\ sentEvents' =
                 IF WaitsForSessionUpdated
                 THEN sentEvents \cup {"session.update"}
                 ELSE FirstResponse("open", closed, sentEvents \cup {"session.update"})
       ELSE /\ sentEvents' = sentEvents \cup {"transcription_session.update"}
            /\ UNCHANGED <<sessionUpdatedResolve, timer5>>
    /\ connectPromise' = IF firstConnect /\ connectPromise = "pending"
                         THEN "resolved" ELSE connectPromise
    /\ attemptsMade' = 0
    /\ UNCHANGED <<rtMode, closed, reconnecting, timer10, acked, firstConnect,
                   reconnectDelay>>
    /\ UNCHANGED <<ttsVars, brVars, callVars, otherVars>>

\* the connection attempt fails: 'error', then 'close'
RtWsFail ==
    /\ rtWs = "connecting"
    /\ connectPromise' = IF firstConnect /\ ~connected /\ connectPromise = "pending"
                         THEN "rejected" ELSE connectPromise
    /\ RtCloseHandler
    /\ UNCHANGED <<rtMode, sessionUpdatedResolve, timer5, timer10, acked, sentEvents,
                   firstConnect>>
    /\ UNCHANGED <<ttsVars, brVars, callVars, otherVars>>

\* the open realtime socket is closed by the server or the network
RtWsClose ==
    /\ rtWs = "open"
    /\ RtCloseHandler
    /\ UNCHANGED <<rtMode, connectPromise, sessionUpdatedResolve, timer5, timer10,
                   acked, sentEvents, firstConnect>>
    /\ UNCHANGED <<ttsVars, brVars, callVars, otherVars>>

\* attemptReconnect wakes from its backoff delay
ReconnectTimer ==
    /\ reconnecting
    /\ reconnecting' = FALSE
    /\ IF closed
       THEN UNCHANGED <<rtWs, firstConnect, attemptsMade>>
       ELSE /\ rtWs' = "connecting"
            /\ firstConnect' = FALSE
            /\ attemptsMade' = attemptsMade + 1
    /\ UNCHANGED reconnectDelay
    /\ UNCHANGED <<rtMode, connected, closed, reconnectAttempts, connectPromise,
                   sessionUpdatedResolve, timer5, timer10, acked, sentEvents>>
    /\ UNCHANGED <<ttsVars, brVars, callVars, otherVars>>

\* handleEvent: a session.updated event arrives
RtSessionUpdated ==
    /\ rtWs = "open"
    /\ acked' = TRUE
    /\ IF sessionUpdatedResolve
       THEN /\ sessionUpdatedResolve' = FALSE
            /\ sentEvents' = FirstResponse(rtWs, closed, sentEvents)
       ELSE UNCHANGED <<sessionUpdatedResolve, sentEvents>>
    /\ UNCHANGED <<rtMode, rtWs, connected, closed, reconnectAttempts, reconnecting,
                   connectPromise, timer5, timer10, firstConnect, rcVars>>
    /\ UNCHANGED <<ttsVars, brVars, callVars, otherVars>>

\* the 5 s safety timer of configureConversationSession fires
Timer5Fire ==
    /\ timer5 = "armed"
    /\ timer5' = "fired"
    /\ IF sessionUpdatedResolve
       THEN /\ sessionUpdatedResolve' = FALSE
            /\ sentEvents' = FirstResponse(rtWs, closed, sentEvents)
       ELSE UNCHANGED <<sessionUpdatedResolve, sentEvents>>
    /\ UNCHANGED <<rtMode, rtWs, connected, closed, reconnectAttempts, reconnecting,
                   connectPromise, timer10, acked, firstConnect, rcVars>>
    /\ UNCHANGED <<ttsVars, brVars, callVars, otherVars>>

\* the 10 s timer of connect()'s doConnect fires
Timer10Fire ==
    /\ timer10 = "armed"
    /\ timer10' = "fired"
    /\ connectPromise' = IF ~connected /\ connectPromise = "pending"
                         THEN "rejected" ELSE connectPromise
    /\ UNCHANGED <<rtMode, rtWs, connected, closed, reconnectAttempts, reconnecting,
                   sessionUpdatedResolve, timer5, acked, sentEvents, firstConnect, rcVars>>
    /\ UNCHANGED <<ttsVars, brVars, callVars, otherVars>>

\* ------------------------------------- realtime session, assistant turn
MaxDoneEvents == 3

\* a string as handleEvent tells strings apart: "" / only white space / other
Texts == {"empty", "blank", "text"}

AssistantDoneTypes == {"response.audio_transcript.done", "response.output_text.done"}

\* a + b on strings
Concat(a, b) ==
    IF a = "empty" THEN b
    ELSE IF b = "empty" THEN a
    ELSE IF a = "blank" /\ b = "blank" THEN "blank" ELSE "text"

\* String.prototype.trim
Trim(a) == IF a = "blank" THEN "empty" ELSE a

\* handleEvent, assistant done: transcript || text || pending.trim()
ResolvedTranscript(t, pending) == IF t # "empty" THEN t ELSE Trim(pending)

InitAssistant ==
    /\ pendingAssistantTranscript = "empty"
    /\ inResponse = FALSE
    /\ doneEvents = <<>>
    /\ finals = 0

\* handleEvent: response.created (logged only) opens the assistant's turn
ResponseCreated ==
    /\ ~inResponse
    /\ inResponse' = TRUE
    /\ doneEvents' = <<>>
    /\ finals' = 0
    /\ UNCHANGED pendingAssistantTranscript
    /\ UNCHANGED <<streamVars, adapterMaps, tokenCheck, control, whVars, acceptVars, jwtVars, gwVars>>

\* handleEvent: response.audio_transcript.delta / response.output_text.delta
\* with a non-empty delta d
AssistantDelta(d) ==
    /\ inResponse
    /\ d # "empty"
    /\ pendingAssistantTranscript' =
         IF rtMode = "conversation"
         THEN Concat(pendingAssistantTranscript, d)
         ELSE pendingAssistantTranscript
    /\ UNCHANGED <<inResponse, doneEvents, finals>>
    /\ UNCHANGED <<streamVars, adapterMaps, tokenCheck, control, whVars, acceptVars, jwtVars, gwVars>>

\* handleEvent: response.audio_transcript.done / response.output_text.done
\* of type ty carrying the text t
AssistantDone(ty, t) ==
    /\ inResponse
    /\ Len(doneEvents) < MaxDoneEvents
    /\ doneEvents' = Append(doneEvents, ty)
    /\ IF rtMode = "conversation"
       THEN /\ finals' = IF ResolvedTranscript(t, pendingAssistantTranscript) # "empty"
                         THEN finals + 1 ELSE finals
            /\ pendingAssistantTranscript' = "empty"
       ELSE UNCHANGED <<finals, pendingAssistantTranscript>>
    /\ UNCHANGED inResponse
    /\ UNCHANGED <<streamVars, adapterMaps, tokenCheck, control, whVars, acceptVars, jwtVars, gwVars>>

\* handleEvent: response.output_item.done emits nothing
OutputItemDone ==
    /\ inResponse
    /\ Len(doneEvents) < MaxDoneEvents
    /\ doneEvents' = Append(doneEvents, "response.output_item.done")
    /\ UNCHANGED <<pendingAssistantTranscript, inResponse, finals>>
    /\ UNCHANGED <<streamVars, adapterMaps, tokenCheck, control, whVars, acceptVars, jwtVars, gwVars>>

\* handleEvent: response.done (logged only) ends the assistant's turn
ResponseDone ==
    /\ inResponse
    /\ inResponse' = FALSE
    /\ UNCHANGED <<pendingAssistantTranscript, doneEvents, finals>>
    /\ UNCHANGED <<streamVars, adapterMaps, tokenCheck, control, whVars, acceptVars, jwtVars, gwVars>>

\* ------------------------------------------- provider adapter, strings
MaxTokenLen == 2

\* characters: two ASCII ones and one that takes two bytes in UTF-8
AsciiChars == {"a", "b"}
Chars == AsciiChars \cup {"U"}

\* strings of at most n characters
Strings(n) == UNION {[1..k -> Chars] : k \in 0..n}

\* Buffer.from(ch): the UTF-8 bytes of one character
Utf8Char(ch) == IF ch = "U" THEN <<"c3", "a9">> ELSE <<ch>>

RECURSIVE Utf8(_)
\* Buffer.from(str): the UTF-8 bytes of a string
Utf8(str) == IF str = <<>> THEN <<>> ELSE Utf8Char(Head(str)) \o Utf8(Tail(str))

\* crypto.timingSafeEqual: throws a RangeError on buffers of different byte length
TimingSafeEqual(x, y) ==
    IF Len(x) # Len(y) THEN "throw"
    ELSE IF x = y THEN "true" ELSE "false"

\* ------------------------------------ provider adapter, stream tokens
Keys == {"call-1", "vox-1"}

\* the call and a second call and provider session the adapter hears of
AllKeys == Keys \cup {"call-2", "vox-2"}

\* crypto.randomBytes(16).toString("base64url"): ASCII, always the same length
GeneratedTokens == [1..MaxTokenLen -> AsciiChars]

\* tokens a client may present: absent or empty (<<>>), shorter, as long, longer
PresentedTokens == Strings(MaxTokenLen + 1)

\* isValidStreamToken with the stored secret `expected` (absent = <<>>)
IsValidStreamToken(expected, token) ==
    IF expected = <<>> \/ token = <<>> THEN "false"
    ELSE IF Len(expected) # Len(token) THEN "false"
    ELSE TimingSafeEqual(Utf8(expected), Utf8(token))

InitAdapterMaps ==
    /\ streamAuthTokens = [k \in AllKeys |-> <<>>]
    /\ callStreamMap = [k \in AllKeys |-> "none"]
    /\ providerCallIdToCallId = [k \in AllKeys |-> "none"]
    /\ providerCallIdToControlUrl = [k \in AllKeys |-> "none"]
    /\ callIdToControlUrl = [k \in AllKeys |-> "none"]
    /\ tokenCheck = [callKey |-> "none", token |-> <<>>, result |-> "none"]
    /\ webhookResult = [provided |-> <<>>, ok |-> TRUE, parsed |-> FALSE, status |-> 0,
                        odd |-> FALSE]
    /\ control = [verb |-> "none", pc |-> "idle", url |-> "none", posts |-> 0,
                  result |-> "none", changed |-> FALSE, odd |-> FALSE]

InitOutcome == startOutcome = [callId |-> "none", accepted |-> FALSE, code |-> 0,
                               odd |-> FALSE]

\* getStreamAuthToken: the stored token, or a fresh one that is stored
GetStreamAuthToken(callKey, fresh) ==
    /\ streamAuthTokens' =
         IF streamAuthTokens[callKey] # <<>> THEN streamAuthTokens
         ELSE [streamAuthTokens EXCEPT ![callKey] = fresh]
    /\ UNCHANGED <<callStreamMap, providerCallIdToCallId, providerCallIdToControlUrl,
                   callIdToControlUrl, tokenCheck, control>>
    /\ UNCHANGED <<streamVars, asVars, whVars, acceptVars, jwtVars, gwVars>>

\* a caller (shouldAcceptStream) asks isValidStreamToken(callKey, token)
CheckStreamToken(callKey, token) ==
    /\ tokenCheck' = [callKey |-> callKey, token |-> token,
                      result |-> IsValidStreamToken(streamAuthTokens[callKey], token)]
    /\ UNCHANGED adapterMaps
    /\ UNCHANGED <<control, streamVars, asVars, whVars, acceptVars, jwtVars, gwVars>>

\* ------------------------------------------ provider adapter, webhooks
\* mutant: buffers of equal length count as equal
SecureEquals_LengthOnly(expected, provided) ==
    Len(Utf8(expected)) = Len(Utf8(provided))

\* secureEquals
SecureEquals(expected, provided) ==
    IF Len(Utf8(expected)) # Len(Utf8(provided)) THEN FALSE
    ELSE TimingSafeEqual(Utf8(expected), Utf8(provided)) = "true"

\* verifyWebhook(ctx).ok, `provided` being the secret found in the request's
\* headers, query or body (<<>> when there is none)
VerifyWebhook(opts, provided) ==
    IF opts.skipVerification THEN TRUE
    ELSE IF opts.webhookSecret = <<>> THEN FALSE
    ELSE IF provided = <<>> THEN FALSE
    ELSE SecureEquals(opts.webhookSecret, provided)

\* webhook payloads: the body parses or not, the event type ("none" = not
\* recognised), the call identifiers and the control URL it carries
WebhookEvents ==
    [bodyOk : BOOLEAN,
     type : {"none", "call.answered", "call.ended"},
     providerCallId : {"none", "vox-1"},
     callId : {"none", "call-1"},
     controlUrl : {"none", "url-1"}]

\* normalizeEvent: the callId the event is attributed to
EventCallId(ev) ==
    IF ev.callId # "none" THEN ev.callId
    ELSE IF ev.providerCallId # "none" /\ providerCallIdToCallId[ev.providerCallId] # "none"
    THEN providerCallIdToCallId[ev.providerCallId]
    ELSE ev.providerCallId

\* normalizeEvent returns an event (not null)
EventNormalized(ev) == ev.type # "none" /\ EventCallId(ev) # "none"

\* normalizeEvent, lines 574-593: the bookkeeping an attributed event updates
NormalizeEvent(ev) ==
    LET p == ev.providerCallId
        c == EventCallId(ev)
        hasUrl == p # "none" /\ ev.controlUrl # "none"
    IN /\ providerCallIdToCallId' =
            IF p # "none" THEN [providerCallIdToCallId EXCEPT ![p] = c]
            ELSE providerCallIdToCallId
       /\ streamAuthTokens' =
            IF p # "none" /\ streamAuthTokens[c] # <<>> /\ streamAuthTokens[p] = <<>>
            THEN [streamAuthTokens EXCEPT ![p] = streamAuthTokens[c]]
            ELSE streamAuthTokens
       /\ callStreamMap' =
            IF p # "none" /\ callStreamMap[c] # "none" /\ callStreamMap[p] = "none"
            THEN [callStreamMap EXCEPT ![p] = callStreamMap[c]]
            ELSE callStreamMap
       /\ providerCallIdToControlUrl' =
            IF hasUrl THEN [providerCallIdToControlUrl EXCEPT ![p] = ev.controlUrl]
            ELSE providerCallIdToControlUrl
       /\ callIdToControlUrl' =
            IF hasUrl THEN [callIdToControlUrl EXCEPT ![c] = ev.controlUrl]
            ELSE callIdToControlUrl

\* the state a normalized event asks the Call Manager for
EventTarget(type) ==
    IF type = "call.answered" THEN "answered" ELSE "completed"

\* parseWebhookEvent and the dispatch of its events into the Call Manager
ParseAndDispatch(provided, ev) ==
    IF ~ev.bodyOk
    THEN /\ webhookResult' = [provided |-> provided, ok |-> TRUE, parsed |-> TRUE,
                              status |-> 400, odd |-> ~webhookResult.odd]
         /\ UNCHANGED <<adapterMaps, callVars>>
    ELSE /\ webhookResult' = [provided |-> provided, ok |-> TRUE, parsed |-> TRUE,
                              status |-> 200, odd |-> ~webhookResult.odd]
         /\ IF EventNormalized(ev)
            THEN NormalizeEvent(ev) /\ CallTransition(EventTarget(ev.type))
            ELSE UNCHANGED <<adapterMaps, callVars>>

\* POST to the webhook path: verifyWebhook, then parseWebhookEvent
HandleWebhook(provided, ev) ==
    /\ IF VerifyWebhook(options, provided)
       THEN ParseAndDispatch(provided, ev)
       ELSE /\ webhookResult' = [provided |-> provided, ok |-> FALSE, parsed |-> FALSE,
                                 status |-> 401, odd |-> ~webhookResult.odd]
            /\ UNCHANGED <<adapterMaps, callVars>>
    /\ UNCHANGED <<options, tokenCheck, control>>
    /\ UNCHANGED <<ttsVars, brVars, rtVars, rcVars, asVars, acceptVars, jwtVars, gwVars>>

\* ------------------------------- provider adapter, management API JWT
MaxNow == 4800
StepSec == 600
JWT_TTL_SEC == 3600

\* generateManagementJwt(nowSec): RS256 over a header and {iat, iss, exp} is a
\* function of nowSec for a given service account
GenerateManagementJwt(nowSec) == <<<<"jwt", nowSec>>, nowSec + JWT_TTL_SEC>>

\* mutant: the comparison is inverted
CachedJwtFresh_Inverted(cached, skew, t) == cached # <<>> /\ cached[2] - skew < t

\* getManagementJwt: the cached token is still to be used at time t
CachedJwtFresh(cached, skew, t) == cached # <<>> /\ cached[2] - skew > t

\* getManagementJwt(forceRefresh): the value of cachedManagementJwt afterwards
JwtCacheAfter(forceRefresh) ==
    IF ~jwtConfig.serviceAccount THEN cachedManagementJwt
    ELSE IF ~forceRefresh
            /\ CachedJwtFresh(cachedManagementJwt, jwtConfig.refreshSkewSec, now)
    THEN cachedManagementJwt
    ELSE GenerateManagementJwt(now)

\* getManagementJwt(forceRefresh): the token returned (the static one without
\* a service account)
JwtReturned(forceRefresh) ==
    IF jwtConfig.serviceAccount THEN JwtCacheAfter(forceRefresh)[1] ELSE <<"static">>

\* getManagementJwt(forceRefresh) as a step of its caller
GetManagementJwt(forceRefresh) ==
    /\ cachedManagementJwt' = JwtCacheAfter(forceRefresh)
    /\ lastJwtCall' = [at |-> now, forced |-> forceRefresh,
                       token |-> JwtReturned(forceRefresh), odd |-> ~lastJwtCall.odd]

InitJwt ==
    /\ now = 0
    /\ cachedManagementJwt = <<>>
    /\ lastJwtCall = [at |-> 0, forced |-> TRUE, token |-> <<>>, odd |-> FALSE]
    /\ api = [pc |-> "idle", requests |-> 0, first |-> 0, last |-> 0, result |-> "none"]

\* time passes
Tick ==
    /\ now + StepSec <= MaxNow
    /\ now' = now + StepSec
    /\ UNCHANGED <<jwtConfig, cachedManagementJwt, lastJwtCall, api>>
    /\ UNCHANGED <<streamVars, asVars, adapterMaps, tokenCheck, control, whVars, acceptVars, gwVars>>

\* mutant: a 401 is never retried
RetriesOn401_Never(status) == FALSE

\* managementApiRequest, line 360: the first response makes the request retry
RetriesOn401(status) == status = 401 /\ jwtConfig.serviceAccount

\* managementApiRequest up to its first fetch
ApiRequestStart ==
    /\ api.pc = "idle"
    /\ GetManagementJwt(FALSE)
    /\ api' = [pc |-> "await1", requests |-> 1, first |-> 0, last |-> 0,
               result |-> "none"]
    /\ UNCHANGED <<now, jwtConfig>>
    /\ UNCHANGED <<streamVars, asVars, adapterMaps, tokenCheck, control, whVars, acceptVars, gwVars>>

\* managementApiRequest resumed by the response to a fetch
ApiResponse(status) ==
    /\ api.pc \in {"await1", "await2"}
    /\ IF api.pc = "await1" /\ RetriesOn401(status)
       THEN /\ GetManagementJwt(TRUE)
            /\ api' = [pc |-> "await2", requests |-> api.requests + 1, first |-> status,
                       last |-> status, result |-> "none"]
       ELSE /\ api' = [pc |-> "idle", requests |-> api.requests,
                       first |-> IF api.pc = "await1" THEN status ELSE api.first,
                       last |-> status,
                       result |-> IF status = 200 THEN "ok" ELSE "error"]
            /\ UNCHANGED <<cachedManagementJwt, lastJwtCall>>
    /\ UNCHANGED <<now, jwtConfig>>
    /\ UNCHANGED <<streamVars, asVars, adapterMaps, tokenCheck, control, whVars, acceptVars, gwVars>>

\* ------------------------------- provider adapter, control commands
\* the call the tool verbs are about
VerbCallId == "call-1"
VerbProviderCallId == "vox-1"

\* registerCallStream(callKey, streamSid) on the map m
RegisterCallStreamIn(m, callKey, streamSid) ==
    LET internalCallId == providerCallIdToCallId[callKey]
        m1 == [m EXCEPT ![callKey] = streamSid]
    IN IF internalCallId # "none" THEN [m1 EXCEPT ![internalCallId] = streamSid] ELSE m1

\* unregisterCallStream(callKey) on the map m
UnregisterCallStreamIn(m, callKey) ==
    LET streamSid == m[callKey]
        internalCallId == providerCallIdToCallId[callKey]
        m1 == [m EXCEPT ![callKey] = "none"]
        m2 == IF internalCallId # "none" THEN [m1 EXCEPT ![internalCallId] = "none"]
              ELSE m1
    IN IF streamSid = "none" THEN m2
       ELSE [k \in DOMAIN m2 |-> IF m2[k] = streamSid THEN "none" ELSE m2[k]]

\* the bridge registers the stream of the call
RegisterCallStream(callKey, streamSid) ==
    /\ callStreamMap' = RegisterCallStreamIn(callStreamMap, callKey, streamSid)
    /\ UNCHANGED <<streamAuthTokens, providerCallIdToCallId, providerCallIdToControlUrl,
                   callIdToControlUrl, tokenCheck, control>>
    /\ UNCHANGED <<streamVars, asVars, whVars, acceptVars, jwtVars, gwVars>>

\* resolveStreamSid
ResolveStreamSid(providerCallId, callId) ==
    IF callStreamMap[providerCallId] # "none" THEN callStreamMap[providerCallId]
    ELSE callStreamMap[callId]

\* mutant: the URL stored for the callId is preferred
ControlUrlFor_CallIdFirst(providerCallId, callId) ==
    IF callIdToControlUrl[callId] # "none" THEN callIdToControlUrl[callId]
    ELSE providerCallIdToControlUrl[providerCallId]

\* sendControlCommand, lines 405-406: the URL the command is posted to
ControlUrlFor(providerCallId, callId) ==
    IF providerCallIdToControlUrl[providerCallId] # "none"
    THEN providerCallIdToControlUrl[providerCallId]
    ELSE callIdToControlUrl[callId]

\* sendControlCommand up to its fetch, as the rest of the verb `verb` whose
\* earlier statements did or did not change the adapter's maps
SendControlCommand(verb, callId, providerCallId, changed) ==
    LET controlUrl == ControlUrlFor(providerCallId, callId)
    IN control' =
         IF controlUrl = "none"
         THEN [verb |-> verb, pc |-> "idle", url |-> "none", posts |-> 0,
               result |-> "NoControlUrl", changed |-> changed, odd |-> ~control.odd]
         ELSE [verb |-> verb, pc |-> "await", url |-> controlUrl, posts |-> 1,
               result |-> "none", changed |-> changed, odd |-> ~control.odd]

\* the verb ends without a control command
VerbReturns(verb, result) ==
    control' = [verb |-> verb, pc |-> "idle", url |-> "none", posts |-> 0,
                result |-> result, changed |-> FALSE, odd |-> ~control.odd]

\* hangupCall up to the fetch of its control command
HangupCall(callId, providerCallId) ==
    LET streams == UnregisterCallStreamIn(
                       UnregisterCallStreamIn(callStreamMap, providerCallId), callId)
        tokens == [streamAuthTokens EXCEPT ![providerCallId] = <<>>, ![callId] = <<>>]
    IN /\ control.pc = "idle"
       /\ callStreamMap' = streams
       /\ streamAuthTokens' = tokens
       /\ SendControlCommand("hangup", callId, providerCallId,
                             streams # callStreamMap \/ tokens # streamAuthTokens)
       /\ UNCHANGED <<providerCallIdToCallId, providerCallIdToControlUrl,
                      callIdToControlUrl, tokenCheck>>
       /\ UNCHANGED <<streamVars, asVars, whVars, acceptVars, jwtVars, gwVars>>

\* playTts up to the fetch of its control command; with a TTS provider, a media
\* stream handler and a registered stream the text is played over the stream
PlayTts(callId, providerCallId, hasTts) ==
    /\ control.pc = "idle"
    /\ IF hasTts /\ ResolveStreamSid(providerCallId, callId) # "none"
       THEN VerbReturns("speak", "stream")
       ELSE SendControlCommand("speak", callId, providerCallId, FALSE)
    /\ UNCHANGED <<adapterMaps, tokenCheck>>
    /\ UNCHANGED <<streamVars, asVars, whVars, acceptVars, jwtVars, gwVars>>

\* startListening and stopListening up to the fetch of their control command
Listening(verb, callId, providerCallId) ==
    /\ control.pc = "idle"
    /\ IF ResolveStreamSid(providerCallId, callId) # "none"
       THEN VerbReturns(verb, "ok")
       ELSE SendControlCommand(verb, callId, providerCallId, FALSE)
    /\ UNCHANGED <<adapterMaps, tokenCheck>>
    /\ UNCHANGED <<streamVars, asVars, whVars, acceptVars, jwtVars, gwVars>>

\* sendControlCommand resumed by the response to its fetch (status 0: the fetch
\* was aborted by the timeout or failed)
ControlResponse(status) ==
    /\ control.pc = "await"
    /\ control' = [control EXCEPT !.pc = "idle",
                     !.result = IF status = 200 THEN "ok"
                                ELSE IF status = 0 THEN "FetchError"
                                ELSE "ProviderError"]
    /\ UNCHANGED <<adapterMaps, tokenCheck>>
    /\ UNCHANGED <<streamVars, asVars, whVars, acceptVars, jwtVars, gwVars>>

\* ------------------------------------- gateway, hook auth throttling
HOOK_AUTH_FAILURE_WINDOW_MS == 60000
\* HOOK_AUTH_FAILURE_LIMIT, 20 in the source, scaled
HOOK_AUTH_FAILURE_LIMIT == 3
\* HOOK_AUTH_FAILURE_TRACK_MAX, 2048 in the source, scaled
HOOK_AUTH_FAILURE_TRACK_MAX == 2
HookStepMs == 29999
MaxHookNowMs == 89997
\* failures the observed client goes on making in a window once it is
\* throttled; the other clients fail once per window
MaxOverLimit == 2

\* resolveHookClientKey: one client more than the map tracks
HookClients == 1..(HOOK_AUTH_FAILURE_TRACK_MAX + 1)
ObservedClient == CHOOSE c \in HookClients : \A d \in HookClients : c <= d

\* hookAuthFailures.has(clientKey), hookAuthFailures.get(clientKey)
HasFailure(m, clientKey) == \E i \in 1..Len(m) : m[i].key = clientKey
FailureOf(m, clientKey) == m[CHOOSE i \in 1..Len(m) : m[i].key = clientKey]

WindowExpired(entry, nowMs) ==
    nowMs - entry.windowStartedAtMs >= HOOK_AUTH_FAILURE_WINDOW_MS

\* hookAuthFailures.delete(clientKey); clearHookAuthFailure
\* mutant: the entry is kept
ClearHookAuthFailure_Keep(m, clientKey) == m

ClearHookAuthFailure(m, clientKey) ==
    LET other(e) == e.key # clientKey IN SelectSeq(m, other)

\* mutant: nothing is dropped
OldestHalf_None(size) == 0

\* recordHookAuthFailure, line 463: how many of the oldest entries are dropped
OldestHalf(size) == size \div 2

\* recordHookAuthFailure, lines 454-472: room is made for a new key
MakeRoom(m, clientKey, nowMs) ==
    IF ~HasFailure(m, clientKey) /\ Len(m) >= HOOK_AUTH_FAILURE_TRACK_MAX
    THEN LET live(e) == ~WindowExpired(e, nowMs)
             pruned == SelectSeq(m, live)
         IN IF Len(pruned) >= HOOK_AUTH_FAILURE_TRACK_MAX
            THEN SubSeq(pruned, OldestHalf(Len(pruned)) + 1, Len(pruned))
            ELSE pruned
    ELSE m

\* recordHookAuthFailure, lines 473-477: the entry after this failure
NextFailure(m, clientKey, nowMs) ==
    IF ~HasFailure(m, clientKey) \/ WindowExpired(FailureOf(m, clientKey), nowMs)
    THEN [key |-> clientKey, count |-> 1, windowStartedAtMs |-> nowMs]
    ELSE [FailureOf(m, clientKey) EXCEPT !.count = @ + 1]

\* recordHookAuthFailure: the map afterwards, the entry set last
RecordHookAuthFailure(m, clientKey, nowMs) ==
    LET room == MakeRoom(m, clientKey, nowMs)
    IN Append(ClearHookAuthFailure(room, clientKey), NextFailure(room, clientKey, nowMs))

\* mutant: the request that reaches the limit is throttled
Throttled_AtLimit(next) == next.count >= HOOK_AUTH_FAILURE_LIMIT

\* recordHookAuthFailure, line 484
Throttled(next) == next.count > HOOK_AUTH_FAILURE_LIMIT

\* recordHookAuthFailure, lines 487-490: Math.ceil(Math.max(1, ...) / 1000)
RetryAfterSeconds(next, nowMs) ==
    LET remaining == next.windowStartedAtMs + HOOK_AUTH_FAILURE_WINDOW_MS - nowMs
        retryAfterMs == IF remaining > 1 THEN remaining ELSE 1
    IN (retryAfterMs + 999) \div 1000

InitHooks ==
    /\ hookNowMs = 0
    /\ hookAuthFailures = <<>>
    /\ hookResult = [status |-> 0, retryAfter |-> 0, afterClear |-> FALSE,
                     odd |-> FALSE]
    /\ observed = [active |-> FALSE, start |-> 0, n |-> 0, evicted |-> FALSE,
                   cleared |-> FALSE]

\* the window the observed client is in at nowMs, as the client counts it
ObservedInWindow(nowMs) ==
    observed.active /\ nowMs - observed.start < HOOK_AUTH_FAILURE_WINDOW_MS

\* a request with a wrong token: recordHookAuthFailure, then 429 or 401
HookAuthFailure(clientKey) ==
    LET m == RecordHookAuthFailure(hookAuthFailures, clientKey, hookNowMs)
        next == m[Len(m)]
        dropped == /\ HasFailure(hookAuthFailures, ObservedClient)
                   /\ ~HasFailure(m, ObservedClient)
                   /\ ObservedInWindow(hookNowMs)
    IN /\ IF clientKey = ObservedClient
          THEN ObservedInWindow(hookNowMs) =>
                  observed.n < HOOK_AUTH_FAILURE_LIMIT + MaxOverLimit
          ELSE HasFailure(hookAuthFailures, clientKey) =>
                  WindowExpired(FailureOf(hookAuthFailures, clientKey), hookNowMs)
       /\ hookAuthFailures' = m
       /\ IF clientKey = ObservedClient
          THEN /\ hookResult' =
                    [status |-> IF Throttled(next) THEN 429 ELSE 401,
                     retryAfter |-> IF Throttled(next)
                                    THEN RetryAfterSeconds(next, hookNowMs) ELSE 0,
                     afterClear |-> observed.cleared,
                     odd |-> ~hookResult.odd]
               /\ observed' =
                    IF ObservedInWindow(hookNowMs)
                    THEN [observed EXCEPT !.n = @ + 1, !.cleared = FALSE]
                    ELSE [active |-> TRUE, start |-> hookNowMs, n |-> 1,
                          evicted |-> observed.evicted, cleared |-> FALSE]
          ELSE /\ observed' = [observed EXCEPT !.evicted = @ \/ dropped]
               /\ UNCHANGED hookResult
       /\ UNCHANGED <<hookNowMs, coreVars, proxy, outVars, mgrVars, toolVars>>

\* a request with the configured token: clearHookAuthFailure, then the hook
\* (status 200 stands for whatever the hook answers)
HookAuthSuccess(clientKey) ==
    /\ hookAuthFailures' = ClearHookAuthFailure(hookAuthFailures, clientKey)
    /\ IF clientKey = ObservedClient
       THEN /\ hookResult' = [status |-> 200, retryAfter |-> 0,
                              afterClear |-> FALSE, odd |-> ~hookResult.odd]
            /\ observed' =
                 [active |-> FALSE, start |-> 0, n |-> 0, evicted |-> observed.evicted,
                  cleared |-> /\ ObservedInWindow(hookNowMs)
                              /\ observed.n >= HOOK_AUTH_FAILURE_LIMIT
                              /\ ~observed.evicted]
       ELSE UNCHANGED <<hookResult, observed>>
    /\ UNCHANGED <<hookNowMs, coreVars, proxy, outVars, mgrVars, toolVars>>

HookTick ==
    /\ hookNowMs + HookStepMs <= MaxHookNowMs
    /\ hookNowMs' = hookNowMs + HookStepMs
    /\ UNCHANGED <<hookAuthFailures, hookResult, observed, coreVars, proxy, outVars,
                   mgrVars, toolVars>>


\* --------------------------------------- gateway, voice-call proxy
MaxProxyChunks == 2
MaxProxyRequests == 3
UpstreamStatuses == {200, 404, 500}

\* upstream: none / open (request sent) / headers (response callback ran) /
\* ended / failed / destroyed (by the client's abort); statusCode, headersSent
\* and body are those of `res`; promise is that of proxyVoiceCallHttpRequest;
\* requests counts the requests handed to the proxy
InitProxy ==
    proxy = [upstream |-> "none", upstreamStatus |-> 0, statusCode |-> 0,
             headersSent |-> FALSE, body |-> "none", promise |-> "none",
             last |-> "none", chunks |-> 0, requests |-> 0]

\* resolve(): settles a pending promise, does nothing to a settled one
Resolve(p) == [p EXCEPT !.promise = IF @ = "pending" THEN "resolved" ELSE @]

\* mutant: the 502 is written whatever has been sent
AnswerBadGateway_Always(p) ==
    [p EXCEPT !.statusCode = 502, !.body = "Bad Gateway", !.headersSent = TRUE]

\* the error handlers of upstreamReq and upstreamRes, before their resolve()
AnswerBadGateway(p) ==
    IF ~p.headersSent
    THEN [p EXCEPT !.statusCode = 502, !.body = "Bad Gateway", !.headersSent = TRUE]
    ELSE p

\* handleRequest hands a request under the webhook path to the proxy
ProxyRequest ==
    /\ proxy.promise # "pending"
    /\ proxy.requests < MaxProxyRequests
    /\ proxy' = [upstream |-> "open", upstreamStatus |-> 0, statusCode |-> 200,
                 headersSent |-> FALSE, body |-> "none", promise |-> "pending",
                 last |-> "request", chunks |-> 0, requests |-> proxy.requests + 1]
    /\ UNCHANGED <<coreVars, hookVars, outVars, mgrVars, toolVars>>

\* the response callback: status and headers are copied, the body is piped
UpstreamResponse(status) ==
    /\ proxy.upstream = "open"
    /\ proxy' = [proxy EXCEPT !.upstream = "headers", !.upstreamStatus = status,
                              !.statusCode = status, !.last = "response"]
    /\ UNCHANGED <<coreVars, hookVars, outVars, mgrVars, toolVars>>

\* upstreamRes.pipe(res) writes a chunk
UpstreamData ==
    /\ proxy.upstream = "headers"
    /\ proxy.chunks < MaxProxyChunks
    /\ proxy' = [proxy EXCEPT !.headersSent = TRUE, !.body = "upstream",
                              !.chunks = @ + 1, !.last = "data"]
    /\ UNCHANGED <<coreVars, hookVars, outVars, mgrVars, toolVars>>

\* upstreamRes "end": the pipe ends res, resolve
UpstreamEnd ==
    /\ proxy.upstream = "headers"
    /\ proxy' = Resolve([proxy EXCEPT !.upstream = "ended", !.headersSent = TRUE,
                                      !.body = IF proxy.chunks = 0 THEN "empty"
                                               ELSE @,
                                      !.last = "end"])
    /\ UNCHANGED <<coreVars, hookVars, outVars, mgrVars, toolVars>>

\* "error" on upstreamReq or upstreamRes: a failure of the connection, the
\* timeout's destroy(error), or the hang-up that follows the destroy() of an
\* aborted request
UpstreamError(kind) ==
    /\ proxy.upstream \in {"open", "headers", "destroyed"}
    /\ proxy' = Resolve(AnswerBadGateway([proxy EXCEPT !.upstream = "failed",
                                                       !.last = kind]))
    /\ UNCHANGED <<coreVars, hookVars, outVars, mgrVars, toolVars>>

\* req "aborted": upstreamReq.destroy(), resolve
ClientAborted ==
    /\ proxy.upstream \in {"open", "headers"}
    /\ proxy' = Resolve([proxy EXCEPT !.upstream = "destroyed", !.last = "aborted"])
    /\ UNCHANGED <<coreVars, hookVars, outVars, mgrVars, toolVars>>

\* ----------------------------- voice-call plugin, outcome delivery
\* call.sessionKey: absent, blank, "agent:<id>:telegram:dm:<chat>", "agent:<id>:main"
SessionKeys == {"none", "blank", "telegram-dm", "main"}
\* call.messageTo: absent, "telegram:<chat>", "telegram:dm:<chat>", another channel
MessageTos == {"none", "telegram-short", "telegram-typed", "other"}
\* generateLlmSummary: a summary, a summary with a confirmed booking, fetch
\* rejected, response not ok, AbortSignal.timeout(15000), OPENAI_API_KEY unset
LlmOutcomes == {"ok", "ok-booking", "request-error", "non-ok", "timeout", "no-key"}

InitDelivery ==
    delivery = [pc |-> "idle", sessionKey |-> "none", messageTo |-> "none",
                llm |-> "none", summary |-> "none", messages |-> 0, events |-> 0,
                contextKey |-> "none", warns |-> 0]

\* mutant: messageTo is not consulted
ResolvesChatId_SessionOnly(sessionKey, messageTo) == sessionKey = "telegram-dm"

\* extractTelegramChatId(sessionKey) ?? extractChatIdFromMessageTo(messageTo)
ResolvesChatId(sessionKey, messageTo) ==
    \/ sessionKey = "telegram-dm"
    \/ messageTo \in {"telegram-short", "telegram-typed"}

\* mutant: only a rejected fetch counts as a failure
LlmThrows_FetchOnly(outcome) == outcome = "request-error"

\* generateLlmSummary throws
LlmThrows(outcome) == outcome \in {"request-error", "non-ok", "timeout", "no-key"}

\* the callback given to setOnCallEndedHook, up to its first await
OnCallEnded(sessionKey, messageTo, enqueueOk) ==
    delivery' =
      IF sessionKey \in {"none", "blank"}
      THEN [delivery EXCEPT !.pc = "done", !.sessionKey = sessionKey,
                            !.messageTo = messageTo, !.warns = @ + 1]
      ELSE IF ResolvesChatId(sessionKey, messageTo)
      THEN [delivery EXCEPT !.pc = "summarizing", !.sessionKey = sessionKey,
                            !.messageTo = messageTo]
      ELSE [delivery EXCEPT !.pc = "done", !.sessionKey = sessionKey,
                            !.messageTo = messageTo, !.events = @ + 1,
                            !.contextKey = "voice-call:call-1:ended",
                            !.warns = IF enqueueOk THEN @ ELSE @ + 1]

\* an event reaches the Call Manager, which invokes the hook when the call
\* ends with it; the hook reads sessionKey and messageTo off the call record
CallEndEvent(to) ==
    /\ Len(stateHistory) <= MaxTransitions
    /\ CallTransition(to)
    /\ IF HookFiresOn(callState, to)
       THEN \E sessionKey \in SessionKeys, messageTo \in MessageTos,
               enqueueOk \in BOOLEAN : OnCallEnded(sessionKey, messageTo, enqueueOk)
       ELSE UNCHANGED delivery
    /\ UNCHANGED <<ttsVars, brVars, rtVars, rcVars, asVars, adapterMaps, tokenCheck,
                   control, whVars, acceptVars, jwtVars, hookVars, proxy, mgrVars,
                   toolVars>>

\* generateLlmSummary settles: the summary is the model's or the template's,
\* and sendMessageTelegram is called
LlmSummaryDone(outcome) ==
    /\ delivery.pc = "summarizing"
    /\ delivery' = [delivery EXCEPT
                      !.pc = "sending",
                      !.llm = outcome,
                      !.summary = IF LlmThrows(outcome) THEN "template"
                                  ELSE IF outcome = "ok-booking" THEN "llm+calendar"
                                  ELSE "llm",
                      !.warns = IF LlmThrows(outcome) THEN @ + 1 ELSE @,
                      !.messages = @ + 1]
    /\ UNCHANGED <<coreVars, hookVars, proxy, mgrVars, toolVars>>

\* sendMessageTelegram settles; a failure is logged
SendDone(ok) ==
    /\ delivery.pc = "sending"
    /\ delivery' = [delivery EXCEPT !.pc = "done",
                                    !.warns = IF ok THEN @ ELSE @ + 1]
    /\ UNCHANGED <<coreVars, hookVars, proxy, mgrVars, toolVars>>

\* --------------------------------- Call Manager records, the runtime
MaxConcurrentCalls == 2
CallIds == 1..(MaxConcurrentCalls + 1)

InitManager ==
    /\ calls = [c \in CallIds |-> "absent"]
    /\ lastInitiate = [result |-> "none", liveBefore |-> 0, odd |-> FALSE]
    /\ runtime = [pc |-> "running", tunnelStopped |-> FALSE, liveAtTunnelStop |-> 0,
                  liveAtClose |-> 0]

\* records in non-terminal states
LiveCalls(cs) == {c \in CallIds : cs[c] \in {"starting", "live"}}

\* mutant: one call over the cap is let through
AtCapacity_Over(n) == n > MaxConcurrentCalls

\* initiateCall's guard
AtCapacity(n) == n >= MaxConcurrentCalls

\* initiateCall up to the provider's initiateCall: guard and record creation
InitiateCall(c) ==
    /\ runtime.pc = "running"
    /\ calls[c] = "absent"
    /\ LET n == Cardinality(LiveCalls(calls))
       IN IF AtCapacity(n)
          THEN /\ lastInitiate' = [result |-> "TooManyCalls", liveBefore |-> n,
                                   odd |-> ~lastInitiate.odd]
               /\ UNCHANGED calls
          ELSE /\ lastInitiate' = [result |-> "created", liveBefore |-> n,
                                   odd |-> ~lastInitiate.odd]
               /\ calls' = [calls EXCEPT ![c] = "starting"]
    /\ UNCHANGED <<runtime, coreVars, hookVars, proxy, outVars, toolVars>>

\* the provider's initiateCall settles
ProviderInitiated(c, ok) ==
    /\ calls[c] = "starting"
    /\ calls' = [calls EXCEPT ![c] = IF ok THEN "live" ELSE "ended"]
    /\ UNCHANGED <<lastInitiate, runtime, coreVars, hookVars, proxy, outVars, toolVars>>

\* a terminal event ends a call
CallEnds(c) ==
    /\ calls[c] \in {"starting", "live"}
    /\ calls' = [calls EXCEPT ![c] = "ended"]
    /\ UNCHANGED <<lastInitiate, runtime, coreVars, hookVars, proxy, outVars, toolVars>>

\* stop() up to webhookServer.stop(): the tunnel, if one was started, is
\* stopped and the tailscale exposure cleaned up
StopExposure(hasTunnel) ==
    /\ runtime.pc = "running"
    /\ runtime' = [runtime EXCEPT
                     !.pc = "stopping",
                     !.tunnelStopped = hasTunnel,
                     !.liveAtTunnelStop = IF hasTunnel
                                          THEN Cardinality(LiveCalls(calls)) ELSE 0]
    /\ UNCHANGED <<calls, lastInitiate, coreVars, hookVars, proxy, outVars, toolVars>>

\* webhookServer.stop(): the server is closed; its code is not part of the
\* sources at hand, so it may or may not end the calls that are left
StopServer(drains) ==
    /\ runtime.pc = "stopping"
    /\ calls' = IF drains
                THEN [c \in CallIds |-> IF c \in LiveCalls(calls) THEN "ended"
                                        ELSE calls[c]]
                ELSE calls
    /\ runtime' = [runtime EXCEPT !.pc = "closed",
                                  !.liveAtClose = Cardinality(LiveCalls(calls'))]
    /\ UNCHANGED <<lastInitiate, coreVars, hookVars, proxy, outVars, toolVars>>

\* ------------------------- voice-call plugin, buildGoogleCalendarUrl
\* texts are sequences of one-character strings
DigitChars == <<"0", "1", "2", "3", "4", "5", "6", "7", "8", "9">>
IsDigit(c) == \E d \in 0..9 : DigitChars[d + 1] = c
DigitOf(c) == CHOOSE d \in 0..9 : DigitChars[d + 1] = c

\* String(n), n >= 0
RECURSIVE Decimal(_)
Decimal(n) ==
    IF n < 10 THEN <<DigitChars[n + 1]>>
    ELSE Append(Decimal(n \div 10), DigitChars[(n % 10) + 1])

\* Number(text) of a text of digits
RECURSIVE NumberOf(_)
NumberOf(text) ==
    IF text = <<>> THEN 0
    ELSE NumberOf(SubSeq(text, 1, Len(text) - 1)) * 10 + DigitOf(text[Len(text)])

\* pad: String(n).padStart(2, "0")
Pad(n) == IF Len(Decimal(n)) < 2 THEN <<"0">> \o Decimal(n) ELSE Decimal(n)

AllDigits(text) == \A i \in 1..Len(text) : IsDigit(text[i])

\* /^\d{4}-\d{2}-\d{2}$/
IsDateText(text) ==
    /\ Len(text) = 10
    /\ text[5] = "-" /\ text[8] = "-"
    /\ AllDigits(SubSeq(text, 1, 4) \o SubSeq(text, 6, 7) \o SubSeq(text, 9, 10))

\* /^\d{2}:\d{2}$/
IsTimeText(text) ==
    /\ Len(text) = 5
    /\ text[3] = ":"
    /\ AllDigits(SubSeq(text, 1, 2) \o SubSeq(text, 4, 5))

\* the while loop: whole days taken out of the minutes, added to the day
EndDay(startD, totalMin) == startD + (totalMin \div (24 * 60))
EndMinutes(totalMin) == totalMin % (24 * 60)

\* URLSearchParams of the dates value and back: "/" is written as %2F
RECURSIVE UrlEncode(_)
UrlEncode(text) ==
    IF text = <<>> THEN <<>>
    ELSE (IF Head(text) = "/" THEN <<"%", "2", "F">> ELSE <<Head(text)>>)
         \o UrlEncode(Tail(text))

RECURSIVE UrlDecode(_)
UrlDecode(text) ==
    IF text = <<>> THEN <<>>
    ELSE IF Len(text) >= 3 /\ SubSeq(text, 1, 3) = <<"%", "2", "F">>
    THEN <<"/">> \o UrlDecode(SubSeq(text, 4, Len(text)))
    ELSE <<Head(text)>> \o UrlDecode(Tail(text))

DEFAULT_DURATION_MIN == 90

\* the dates parameter of the URL, as written into the query string
BuildGoogleCalendarUrl(booking) ==
    IF \/ ~booking.confirmed
       \/ booking.date = <<>>
       \/ booking.time = <<>>
       \/ ~IsDateText(booking.date)
       \/ ~IsTimeText(booking.time)
    THEN [isNull |-> TRUE, dates |-> <<>>]
    ELSE LET startH == NumberOf(SubSeq(booking.time, 1, 2))
             startM == NumberOf(SubSeq(booking.time, 4, 5))
             startY == NumberOf(SubSeq(booking.date, 1, 4))
             startMo == NumberOf(SubSeq(booking.date, 6, 7))
             startD == NumberOf(SubSeq(booking.date, 9, 10))
             startLocal == Decimal(startY) \o Pad(startMo) \o Pad(startD) \o <<"T">>
                           \o Pad(startH) \o Pad(startM) \o <<"0", "0">>
             durationMin == IF booking.hasDuration THEN booking.durationMinutes
                            ELSE DEFAULT_DURATION_MIN
             endTotalMin == startH * 60 + startM + durationMin
             endD == EndDay(startD, endTotalMin)
             endH == EndMinutes(endTotalMin) \div 60
             endMin == EndMinutes(endTotalMin) % 60
             endLocal == Decimal(startY) \o Pad(startMo) \o Pad(endD) \o <<"T">>
                         \o Pad(endH) \o Pad(endMin) \o <<"0", "0">>
         IN [isNull |-> FALSE, dates |-> UrlEncode(startLocal \o <<"/">> \o endLocal)]

\* the bookings tried: days at the start, in the middle and at the end of
\* months of different lengths, in a leap year and in a common year
MaxCarryDays == 1
BookingYears == {2024, 2025}
BookingMonths == {1, 2, 4, 12}
BookingDays == {1, 15, 28, 29, 30, 31}
BookingTimes == {<<0, 0>>, <<12, 30>>, <<22, 30>>, <<23, 59>>}
BookingDurations == {30, 90, 120} \cup {d * 24 * 60 + 45 : d \in 1..MaxCarryDays}

IsLeapYear(y) == (y % 4 = 0 /\ y % 100 # 0) \/ y % 400 = 0
DaysInMonth(y, mo) ==
    IF mo = 2 THEN (IF IsLeapYear(y) THEN 29 ELSE 28)
    ELSE IF mo \in {4, 6, 9, 11} THEN 30 ELSE 31

DateText(y, mo, d) == Decimal(y) \o <<"-">> \o Pad(mo) \o <<"-">> \o Pad(d)
TimeText(h, mi) == Pad(h) \o <<":">> \o Pad(mi)

BookingDates ==
    {on \in BookingYears \X BookingMonths \X BookingDays :
        on[3] <= DaysInMonth(on[1], on[2])}

Bookings ==
    { [confirmed |-> c, date |-> DateText(on[1], on[2], on[3]),
       time |-> TimeText(t[1], t[2]),
       hasDuration |-> hd, durationMinutes |-> IF hd THEN dur ELSE 0] :
        c \in BOOLEAN, on \in BookingDates, t \in BookingTimes, hd \in BOOLEAN,
        dur \in BookingDurations }
    \cup
    { [confirmed |-> TRUE, date |-> dt, time |-> tm, hasDuration |-> FALSE,
       durationMinutes |-> 0] :
        dt \in {<<>>, <<"2", "0", "2", "5", "-", "1", "-", "5">>},
        tm \in {<<>>, <<"9", ":", "0", "0">>, TimeText(9, 0)} }

InitCalendar ==
    calendar = [booking |-> [confirmed |-> FALSE, date |-> <<>>, time |-> <<>>,
                             hasDuration |-> FALSE, durationMinutes |-> 0],
                url |-> [isNull |-> TRUE, dates |-> <<>>], built |-> FALSE]

\* the on-call-ended callback builds the link for the booking of the summary,
\* once for the call
BuildCalendarUrl(booking) ==
    /\ ~calendar.built
    /\ calendar' = [booking |-> booking, url |-> BuildGoogleCalendarUrl(booking),
                    built |-> TRUE]
    /\ UNCHANGED <<task, mapped, callHistory, conn, transcriptWait, coreVars, hookVars, proxy, outVars,
                   mgrVars>>

\* ------------------------------- webhook server, sanitizeTask
\* A task is a sequence of tokens: the word "pozvonit" in lower case and
\* capitalised, "po", "nomeru", a run of phone characters, "i" in both cases,
\* another word in both cases, and one whitespace character, all written in
\* Latin letters here. The cap counts tokens.
TASK_MAX == 8
MaxTaskPieces == 3
Sp == " "
CallWords == {"pozvonit", "Pozvonit"}
AndWords == {"i", "I"}

\* toUpperCase of the first letter
UpperOf(token) ==
    CASE token = "pozvonit" -> "Pozvonit"
      [] token = "i" -> "I"
      [] token = "uznat" -> "Uznat"
      [] token = "po" -> "Po"
      [] token = "nomeru" -> "Nomeru"
      [] OTHER -> token

RECURSIVE DropSpaces(_)
DropSpaces(text) ==
    IF text # <<>> /\ Head(text) = Sp THEN DropSpaces(Tail(text)) ELSE text

\* the rest of a phone-like sequence: phone characters and whitespace
RECURSIVE DropPhone(_)
DropPhone(text) ==
    IF DropSpaces(text) # <<>> /\ Head(DropSpaces(text)) = "+7960"
    THEN DropPhone(Tail(DropSpaces(text)))
    ELSE text

StartsWith(text, tokens) == text # <<>> /\ Head(text) \in tokens
SpacesThen(text, tokens) == StartsWith(text, {Sp}) /\ StartsWith(DropSpaces(text), tokens)

\* the text after a leading "pozvonit (po nomeru)? <phone> i ", or the text
\* itself when it does not begin so; case is ignored
StripCallPrefix(text) ==
    IF ~(StartsWith(text, CallWords) /\ StartsWith(Tail(text), {Sp})) THEN text
    ELSE LET afterCall == DropSpaces(Tail(text))
             afterBy ==
                 IF /\ StartsWith(afterCall, {"po", "Po"})
                    /\ SpacesThen(Tail(afterCall), {"nomeru", "Nomeru"})
                    /\ StartsWith(Tail(DropSpaces(Tail(afterCall))), {Sp})
                 THEN DropSpaces(Tail(DropSpaces(Tail(afterCall))))
                 ELSE afterCall
         IN IF ~StartsWith(afterBy, {"+7960"}) THEN text
            ELSE LET afterPhone == DropPhone(Tail(afterBy))
                 IN IF /\ SpacesThen(afterPhone, AndWords)
                       /\ StartsWith(Tail(DropSpaces(afterPhone)), {Sp})
                    THEN DropSpaces(Tail(DropSpaces(afterPhone)))
                    ELSE text

\* mutant: one pass that joins whitespace two by two
RECURSIVE JoinPairs(_)
JoinPairs(text) ==
    IF Len(text) >= 2 /\ text[1] = Sp /\ text[2] = Sp
    THEN <<Sp>> \o JoinPairs(SubSeq(text, 3, Len(text)))
    ELSE IF text = <<>> THEN <<>>
    ELSE <<Head(text)>> \o JoinPairs(Tail(text))

RECURSIVE JoinRuns(_)
JoinRuns(text) ==
    IF text = <<>> THEN <<>>
    ELSE IF Head(text) = Sp
    THEN (IF DropSpaces(text) = <<>> THEN <<>> ELSE <<Sp>>) \o JoinRuns(DropSpaces(text))
    ELSE <<Head(text)>> \o JoinRuns(Tail(text))

CollapseWhitespace_Pairs(text) == JoinPairs(DropSpaces(text))

\* runs of whitespace become one character, none is left at either end
CollapseWhitespace(text) == JoinRuns(DropSpaces(text))

CapTask(text) == SubSeq(text, 1, IF Len(text) < TASK_MAX THEN Len(text) ELSE TASK_MAX)

Capitalize(text) == IF text = <<>> THEN text ELSE <<UpperOf(Head(text))>> \o Tail(text)

SanitizeTask(text) == Capitalize(CapTask(CollapseWhitespace(StripCallPrefix(text))))

\* the tasks tried: up to MaxTaskPieces pieces, one after the other
TaskPieces ==
    { <<"pozvonit", Sp, "+7960", Sp, "i", Sp>>,
      <<"Pozvonit", Sp, "po", Sp, "nomeru", Sp, "+7960", Sp, "+7960", Sp, "I", Sp>>,
      <<"uznat">>, <<"Uznat", Sp, "uznat">>, <<Sp>>, <<Sp, Sp, Sp, Sp>>,
      <<"uznat", Sp, "uznat", Sp, "uznat", Sp, "uznat", Sp>> }

RECURSIVE TaskInputs(_)
TaskInputs(n) ==
    IF n = 0 THEN {<<>>}
    ELSE TaskInputs(n - 1) \cup {t \o piece : t \in TaskInputs(n - 1), piece \in TaskPieces}

AllTasks == TaskInputs(MaxTaskPieces)

InitTask == task = [input |-> <<>>, output |-> <<>>, twice |-> <<>>, done |-> FALSE]

\* the dial-out prompt is composed: the task is sanitized (and, to compare,
\* the result is sanitized once more)
ComposeTask(text) ==
    /\ ~task.done
    /\ task' = [input |-> text, output |-> SanitizeTask(text),
                twice |-> SanitizeTask(SanitizeTask(text)), done |-> TRUE]
    /\ UNCHANGED <<calendar, mapped, callHistory, conn, transcriptWait, coreVars, hookVars, proxy, outVars,
                   mgrVars>>

\* ------------------------------- VoximplantProvider, mapEndReason
\* reasons are texts, sequences of one-character strings
LowerOf(c) ==
    CASE c = "N" -> "n" [] c = "A" -> "a" [] c = "V" -> "v" [] c = "M" -> "m"
      [] OTHER -> c

ToLowerCase(text) == [i \in 1..Len(text) |-> LowerOf(text[i])]

RECURSIVE TrimEnd(_)
TrimEnd(text) ==
    IF text # <<>> /\ text[Len(text)] = Sp THEN TrimEnd(SubSeq(text, 1, Len(text) - 1))
    ELSE text

TrimText(text) == TrimEnd(DropSpaces(text))

\* value.includes(key)
Includes(value, key) ==
    \E i \in 1..(Len(value) + 1) :
        /\ i + Len(key) - 1 <= Len(value)
        /\ SubSeq(value, i, i + Len(key) - 1) = key

\* mutant: the timeout test comes first
MapEndReason_TimeoutFirst(raw) ==
    LET value == ToLowerCase(TrimText(raw.text))
    IN IF ~raw.present \/ value = <<>> THEN "completed"
       ELSE IF Includes(value, <<"t", "i", "m", "e", "o", "u", "t">>) THEN "timeout"
       ELSE IF Includes(value, <<"b", "u", "s", "y">>) THEN "busy"
       ELSE IF Includes(value, <<"n", "o", "-", "a", "n", "s", "w", "e", "r">>) \/ Includes(value, <<"n", "o", " ", "a", "n", "s", "w", "e", "r">>) THEN "no-answer"
       ELSE IF Includes(value, <<"v", "o", "i", "c", "e", "m", "a", "i", "l">>) THEN "voicemail"
       ELSE IF Includes(value, <<"h", "a", "n", "g", "u", "p", "-", "u", "s", "e", "r">>) \/ Includes(value, <<"u", "s", "e", "r">>) THEN "hangup-user"
       ELSE IF Includes(value, <<"h", "a", "n", "g", "u", "p", "-", "b", "o", "t">>) \/ Includes(value, <<"b", "o", "t">>) THEN "hangup-bot"
       ELSE IF Includes(value, <<"e", "r", "r", "o", "r">>) \/ Includes(value, <<"f", "a", "i", "l">>) THEN "failed"
       ELSE "completed"

MapEndReason(raw) ==
    LET value == ToLowerCase(TrimText(raw.text))
    IN IF ~raw.present \/ value = <<>> THEN "completed"
       ELSE IF Includes(value, <<"b", "u", "s", "y">>) THEN "busy"
       ELSE IF Includes(value, <<"n", "o", "-", "a", "n", "s", "w", "e", "r">>) \/ Includes(value, <<"n", "o", " ", "a", "n", "s", "w", "e", "r">>) THEN "no-answer"
       ELSE IF Includes(value, <<"v", "o", "i", "c", "e", "m", "a", "i", "l">>) THEN "voicemail"
       ELSE IF Includes(value, <<"t", "i", "m", "e", "o", "u", "t">>) THEN "timeout"
       ELSE IF Includes(value, <<"h", "a", "n", "g", "u", "p", "-", "u", "s", "e", "r">>) \/ Includes(value, <<"u", "s", "e", "r">>) THEN "hangup-user"
       ELSE IF Includes(value, <<"h", "a", "n", "g", "u", "p", "-", "b", "o", "t">>) \/ Includes(value, <<"b", "o", "t">>) THEN "hangup-bot"
       ELSE IF Includes(value, <<"e", "r", "r", "o", "r">>) \/ Includes(value, <<"f", "a", "i", "l">>) THEN "failed"
       ELSE "completed"

\* the raw reasons tried: up to MaxReasonParts fragments, one after the other,
\* and a missing reason
MaxReasonParts == 2
ReasonParts ==
    { <<"b", "u", "s", "y">>,
      <<"N", "o", " ", "A", "n", "s", "w", "e", "r">>,
      <<"n", "o", "-", "a", "n", "s", "w", "e", "r">>,
      <<"V", "o", "i", "c", "e", "M", "a", "i", "l">>,
      <<"t", "i", "m", "e", "o", "u", "t">>,
      <<"u", "s", "e", "r">>,
      <<"h", "a", "n", "g", "u", "p", "-", "b", "o", "t">>,
      <<"r", "o", "b", "o", "t">>,
      <<"e", "r", "r", "o", "r">>,
      <<"f", "a", "i", "l", "e", "d">>,
      <<"o", "k">>,
      <<" ">> }

RECURSIVE ReasonTexts(_)
ReasonTexts(n) ==
    IF n = 0 THEN {<<>>}
    ELSE ReasonTexts(n - 1) \cup {t \o part : t \in ReasonTexts(n - 1), part \in ReasonParts}

RawReasons ==
    {[present |-> TRUE, text |-> t] : t \in ReasonTexts(MaxReasonParts)}
    \cup {[present |-> FALSE, text |-> <<>>]}

InitMapped ==
    mapped = [raw |-> [present |-> FALSE, text |-> <<>>], reason |-> "none",
              done |-> FALSE]

\* normalizeEvent maps the reason of a call.ended event
MapReason(raw) ==
    /\ ~mapped.done
    /\ mapped' = [raw |-> raw, reason |-> MapEndReason(raw), done |-> TRUE]
    /\ UNCHANGED <<calendar, task, callHistory, conn, transcriptWait, coreVars, hookVars, proxy, outVars,
                   mgrVars>>

\* ------------------------------- voice-call tool, get_call_history
\* A record of the history is [callId, sessionKey, ts]: ts is endedAt ??
\* startedAt, sessionKey "" stands for a record without one. Results are
\* given as positions in the records handed to getLatestCallSnapshots.
MaxHistory == 3
HistoryCallIds == {"call-a", "call-b"}
HistorySessions == {"", "session-1", "session-2"}
HistoryTimes == {1, 2}
HistoryLimits == {1, 2}
HistoryRecords ==
    [callId : HistoryCallIds, sessionKey : HistorySessions, ts : HistoryTimes]

RECURSIVE Histories(_)
Histories(n) ==
    IF n = 0 THEN {<<>>}
    ELSE Histories(n - 1) \cup {Append(h, r) : h \in Histories(n - 1), r \in HistoryRecords}

AllHistories == Histories(MaxHistory)

\* resolveHistoryLimit of a whole number
ResolveHistoryLimit(value) == IF value < 1 THEN 1 ELSE IF value > 200 THEN 200 ELSE value

\* manager.getCallHistory(n): the n records written last, oldest first
GetCallHistory(history, n) ==
    SubSeq(history, IF Len(history) > n THEN Len(history) - n + 1 ELSE 1, Len(history))

\* the positions a Map keyed by callId holds after the loop, in the order of
\* its keys: a key keeps the place of its first set and the value of its last
FirstOf(records, i) == \A j \in 1..(i - 1) : records[j].callId # records[i].callId
LastOf(records, i) ==
    CHOOSE j \in i..Len(records) :
        /\ records[j].callId = records[i].callId
        /\ \A k \in (j + 1)..Len(records) : records[k].callId # records[i].callId

MapValues(records, keepLast) ==
    LET F[n \in 0..Len(records)] ==
            IF n = 0 THEN <<>>
            ELSE IF FirstOf(records, n) THEN Append(F[n - 1], IF keepLast THEN LastOf(records, n) ELSE n)
            ELSE F[n - 1]
    IN F[Len(records)]

\* Array.prototype.sort with (a, b) => bTs - aTs: stable, latest first
RECURSIVE InsertByTime(_, _, _)
InsertByTime(records, sorted, i) ==
    IF sorted = <<>> THEN <<i>>
    ELSE IF records[Head(sorted)].ts >= records[i].ts
    THEN <<Head(sorted)>> \o InsertByTime(records, Tail(sorted), i)
    ELSE <<i>> \o sorted

RECURSIVE SortByTime(_, _)
SortByTime(records, positions) ==
    IF positions = <<>> THEN <<>>
    ELSE InsertByTime(records,
                      SortByTime(records, SubSeq(positions, 1, Len(positions) - 1)),
                      positions[Len(positions)])

\* mutant: the first record of a call is kept
GetLatestCallSnapshots_First(records) ==
    SortByTime(records, MapValues(records, FALSE))

GetLatestCallSnapshots(records) == SortByTime(records, MapValues(records, TRUE))

SelectPositions(positions, keep(_)) ==
    LET F[n \in 0..Len(positions)] ==
            IF n = 0 THEN <<>>
            ELSE IF keep(positions[n]) THEN Append(F[n - 1], positions[n]) ELSE F[n - 1]
    IN F[Len(positions)]

\* execute, action get_call_history: the positions of the calls returned
CallHistoryResult(history, sessionKey, includeAllSessions, requestedCallId, limitParam) ==
    LET limit == ResolveHistoryLimit(limitParam)
        raw == GetCallHistory(history, limit * 6)
        snapshots == GetLatestCallSnapshots(raw)
        InSession(i) == raw[i].sessionKey = sessionKey
        Requested(i) == raw[i].callId = requestedCallId
        scoped == IF includeAllSessions \/ sessionKey = "" THEN snapshots
                  ELSE SelectPositions(snapshots, InSession)
        filtered == IF requestedCallId # "" THEN SelectPositions(scoped, Requested)
                    ELSE SubSeq(scoped, 1, IF Len(scoped) < limit THEN Len(scoped)
                                           ELSE limit)
    IN [raw |-> raw, calls |-> filtered]

InitHistory ==
    callHistory = [records |-> <<>>, sessionKey |-> "", includeAllSessions |-> FALSE,
                   requestedCallId |-> "", calls |-> <<>>, done |-> FALSE]

\* the tool of a session is asked for the history
GetCallHistoryTool ==
    /\ ~callHistory.done
    /\ \E history \in AllHistories, sessionKey \in {"", "session-1"},
          includeAllSessions \in BOOLEAN, requestedCallId \in {"", "call-a"},
          limitParam \in HistoryLimits :
         LET result == CallHistoryResult(history, sessionKey, includeAllSessions,
                                         requestedCallId, limitParam)
         IN callHistory' = [records |-> result.raw, sessionKey |-> sessionKey,
                            includeAllSessions |-> includeAllSessions,
                            requestedCallId |-> requestedCallId,
                            calls |-> result.calls, done |-> TRUE]
    /\ UNCHANGED <<calendar, task, mapped, conn, transcriptWait, coreVars, hookVars, proxy, outVars,
                   mgrVars>>

\* ------------------- MediaStreamHandler, the messages of one connection
\* handleConnection keeps `session` in a local variable that the message
\* handler assigns after an await: a handler that has called handleStart or
\* handleRawStart is suspended until its continuation runs, and another
\* message can be handled in between. Session 0 is null; the sessions created
\* on the connection are numbered from 1.
MaxConnMessages == 3
StartEncodings == {"ULAW", "audio/x-mulaw"}
ACK_ENCODING == "audio/x-mulaw"

InitConn ==
    conn = [session |-> 0, pending |-> <<>>, created |-> 0, onConnects |-> 0,
            starts |-> <<>>, acks |-> <<>>, messages |-> 0, stops |-> 0]

\* createSession for an accepted stream: the session is stored, the start
\* acknowledgement is sent on a framed-JSON stream, onConnect is called
CreateSessionOn(c, transport, encoding) ==
    [c EXCEPT !.created = @ + 1,
              !.onConnects = @ + 1,
              !.starts = IF transport = "twilio-json" THEN Append(@, encoding) ELSE @,
              !.acks = IF transport = "twilio-json" THEN Append(@, ACK_ENCODING) ELSE @,
              !.pending = Append(@, c.created + 1)]

\* a binary message: handleRawStart when the handler sees no session yet
BinaryMessage ==
    /\ conn.messages < MaxConnMessages
    /\ conn' = IF conn.session = 0
               THEN [CreateSessionOn(conn, "raw", "none") EXCEPT !.messages = @ + 1]
               ELSE [conn EXCEPT !.messages = @ + 1]
    /\ UNCHANGED <<calendar, task, mapped, callHistory, transcriptWait, coreVars, hookVars, proxy,
                   outVars, mgrVars>>

\* a start message: handleStart, whatever `session` holds
StartMessage(encoding) ==
    /\ conn.messages < MaxConnMessages
    /\ conn' = [CreateSessionOn(conn, "twilio-json", encoding) EXCEPT !.messages = @ + 1]
    /\ UNCHANGED <<calendar, task, mapped, callHistory, transcriptWait, coreVars, hookVars, proxy,
                   outVars, mgrVars>>

\* the continuation of the oldest suspended handler: `session = await ...`
ResumeHandler ==
    /\ conn.pending # <<>>
    /\ conn' = [conn EXCEPT !.session = Head(conn.pending), !.pending = Tail(@)]
    /\ UNCHANGED <<calendar, task, mapped, callHistory, transcriptWait, coreVars, hookVars, proxy,
                   outVars, mgrVars>>

\* a stop message: handleStop(session) when a session is held
ConnStopMessage ==
    /\ conn.messages < MaxConnMessages
    /\ conn' = IF conn.session # 0
               THEN [conn EXCEPT !.session = 0, !.stops = @ + 1, !.messages = @ + 1]
               ELSE [conn EXCEPT !.messages = @ + 1]
    /\ UNCHANGED <<calendar, task, mapped, callHistory, transcriptWait, coreVars, hookVars, proxy,
                   outVars, mgrVars>>

\* ------------------------- realtime session, waiting for a transcript
\* Each waitForTranscript call saves the installed transcript callback as its
\* `original`, installs its own and arms a timer; its callback and its timer
\* both put `original` back. The calls are numbered from 1 in the order they
\* are made; callback 0 is the one registered through onTranscript.
MaxWaiters == 3
MaxTranscripts == 3
Waiters == 1..MaxWaiters
REGISTERED == 0

InitTranscriptWait ==
    transcriptWait = [callback |-> REGISTERED,
                      original |-> [w \in Waiters |-> REGISTERED],
                      state |-> [w \in Waiters |-> "idle"],
                      timer |-> [w \in Waiters |-> FALSE],
                      started |-> 0, transcripts |-> 0, delivered |-> 0,
                      lateConsumed |-> FALSE]

\* the callback a waitForTranscript call installs, run with a transcript
WaiterCallback(t, w) ==
    [t EXCEPT !.timer[w] = FALSE,
              !.callback = t.original[w],
              !.state[w] = IF @ = "pending" THEN "resolved" ELSE @,
              !.lateConsumed = @ \/ t.state[w] # "pending"]

\* waitForTranscript
WaitForTranscript ==
    /\ transcriptWait.started < MaxWaiters
    /\ LET w == transcriptWait.started + 1
       IN transcriptWait' = [transcriptWait EXCEPT !.started = w,
                                                   !.original[w] = transcriptWait.callback,
                                                   !.timer[w] = TRUE,
                                                   !.state[w] = "pending",
                                                   !.callback = w]
    /\ UNCHANGED <<calendar, task, mapped, callHistory, conn, coreVars, hookVars, proxy,
                   outVars, mgrVars>>

\* the timer of a waitForTranscript call fires
TranscriptTimeout(w) ==
    /\ transcriptWait.timer[w]
    /\ transcriptWait' = [transcriptWait EXCEPT
                            !.timer[w] = FALSE,
                            !.callback = transcriptWait.original[w],
                            !.state[w] = IF @ = "pending" THEN "rejected" ELSE @]
    /\ UNCHANGED <<calendar, task, mapped, callHistory, conn, coreVars, hookVars, proxy,
                   outVars, mgrVars>>

\* handleEvent, conversation.item.input_audio_transcription.completed
TranscriptionCompleted(hasText) ==
    /\ transcriptWait.transcripts < MaxTranscripts
    /\ LET t == [transcriptWait EXCEPT !.transcripts = @ + 1]
       IN transcriptWait' =
            IF ~hasText THEN t
            ELSE IF t.callback = REGISTERED THEN [t EXCEPT !.delivered = @ + 1]
            ELSE WaiterCallback(t, t.callback)
    /\ UNCHANGED <<calendar, task, mapped, callHistory, conn, coreVars, hookVars, proxy,
                   outVars, mgrVars>>

InitTools ==
    /\ InitCalendar /\ InitTask /\ InitMapped /\ InitHistory /\ InitConn
    /\ InitTranscriptWait
InitGateway == InitHooks /\ InitProxy /\ InitDelivery /\ InitManager /\ InitTools

\* ------------------------------------------------------ specifications
\* an adapter with a service account, verification on and a webhook secret
\* configured; a stream handler with both callbacks set
InitAdapter ==
    /\ InitAdapterMaps
    /\ InitOutcome
    /\ InitGateway
    /\ streamConfig = [resolveCallIdByToken |-> TRUE, shouldAcceptStream |-> TRUE]
    /\ InitJwt
    /\ jwtConfig = [serviceAccount |-> TRUE, refreshSkewSec |-> 0]
    /\ options = [skipVerification |-> FALSE, webhookSecret |-> <<"a", "b">>]

InitStream ==
    /\ nextOp = 0
    /\ ttsQueue = <<>>
    /\ ttsPlaying = FALSE
    /\ ttsActive = {}
    /\ aborted = {}
    /\ promise = [o \in Ops |-> "none"]
    /\ pc = [o \in Ops |-> "idle"]
    /\ left = [o \in Ops |-> 0]
    /\ frames = [o \in Ops |-> 0]
    /\ clearedOps = {}
    /\ mediaWs = "none"
    /\ hasSession = FALSE
    /\ disconnects = FALSE
    /\ rtMode \in RtModes
    /\ rtWs = "none"
    /\ connected = FALSE
    /\ closed = FALSE
    /\ reconnectAttempts = 0
    /\ reconnecting = FALSE
    /\ connectPromise = "none"
    /\ sessionUpdatedResolve = FALSE
    /\ timer5 = "off"
    /\ timer10 = "off"
    /\ acked = FALSE
    /\ sentEvents = {}
    /\ firstConnect = FALSE
    /\ reconnectDelay = 0
    /\ attemptsMade = 0

\* the record of a call in state s
InitCall(s) ==
    /\ callState = s
    /\ endReason = "none"
    /\ stateHistory = <<s>>
    /\ transitionError = FALSE
    /\ endedAt = 0
    /\ endedHookCalls = 0

\* a stream of a call that is in progress
Init ==
    /\ InitStream
    /\ InitCall("active")
    /\ InitAssistant
    /\ InitAdapter

\* the TTS queue of a stream and the stream's session lifecycle
NextTts ==
    \/ QueueTts
    \/ \E o \in Ops, n \in 0..MaxChunks, fails \in BOOLEAN : SynthDone(o, n, fails)
    \/ \E o \in Ops : SleepDone(o)
    \/ ClearTtsQueue
    \/ MediaConnect
    \/ HandleStart
    \/ StopMessage
    \/ MediaWsClose

\* the provider's mode plays no part in the TTS queue
InitTts == Init /\ rtMode = "conversation"

SpecTts == InitTts /\ [][NextTts]_vars

\* the realtime session of a stream session
NextRealtime ==
    \/ MediaConnect
    \/ HandleStart
    \/ StopMessage
    \/ MediaWsClose
    \/ RtWsOpen
    \/ RtWsFail
    \/ RtWsClose
    \/ ReconnectTimer
    \/ RtSessionUpdated
    \/ Timer5Fire
    \/ Timer10Fire

SpecRealtime == Init /\ [][NextRealtime]_vars

\* timers fire and nothing else is promised: the carrier and the realtime
\* server are free never to send or close anything
FairSpecRealtime ==
    /\ SpecRealtime
    /\ WF_vars(ReconnectTimer)
    /\ WF_vars(Timer5Fire)
    /\ WF_vars(Timer10Fire)


\* the assistant-side events of the realtime session
NextAssistant ==
    \/ ResponseCreated
    \/ \E d \in Texts : AssistantDelta(d)
    \/ \E ty \in AssistantDoneTypes, t \in Texts : AssistantDone(ty, t)
    \/ OutputItemDone
    \/ ResponseDone

SpecAssistant == Init /\ [][NextAssistant]_vars

\* the record of a call from its creation
NextCall == \E to \in CallStates : TransitionRequest(to)

InitNewCall ==
    /\ InitStream
    /\ rtMode = "conversation"
    /\ InitCall("initiating")
    /\ InitAssistant
    /\ InitAdapter

SpecCall == InitNewCall /\ [][NextCall]_vars

\* the stream tokens of the provider adapter
NextToken ==
    \/ \E k \in Keys, fresh \in GeneratedTokens : GetStreamAuthToken(k, fresh)
    \/ \E k \in Keys, token \in PresentedTokens : CheckStreamToken(k, token)

SpecToken == InitTts /\ [][NextToken]_vars

\* the provider adapter behind the webhook endpoint, the secret set or not
ConfiguredOptions ==
    [skipVerification : BOOLEAN, webhookSecret : {<<>>, <<"a", "b">>, <<"U">>}]

\* the secret a request carries: none, and strings that differ from or agree
\* with a configured one in content, in characters and in bytes
ProvidedSecrets == {<<>>, <<"a", "b">>, <<"a", "a">>, <<"U">>, <<"a">>}

InitWebhook ==
    /\ InitStream
    /\ rtMode = "conversation"
    /\ InitCall("initiating")
    /\ InitAssistant
    /\ InitAdapterMaps
    /\ InitOutcome
    /\ InitGateway
    /\ streamConfig = [resolveCallIdByToken |-> TRUE, shouldAcceptStream |-> TRUE]
    /\ InitJwt
    /\ jwtConfig = [serviceAccount |-> TRUE, refreshSkewSec |-> 0]
    /\ options \in ConfiguredOptions

NextWebhook ==
    \/ \E provided \in ProvidedSecrets, ev \in WebhookEvents :
          HandleWebhook(provided, ev)
    \/ \E fresh \in GeneratedTokens : GetStreamAuthToken("call-1", fresh)

SpecWebhook == InitWebhook /\ [][NextWebhook]_vars

\* connections to the media endpoint, under every configuration of the handler
InitAccept ==
    /\ InitStream
    /\ InitCall("active")
    /\ InitAssistant
    /\ InitAdapterMaps
    /\ InitOutcome
    /\ InitGateway
    /\ options = [skipVerification |-> FALSE, webhookSecret |-> <<"a", "b">>]
    /\ streamConfig \in [resolveCallIdByToken : BOOLEAN, shouldAcceptStream : BOOLEAN]
    /\ InitJwt
    /\ jwtConfig = [serviceAccount |-> TRUE, refreshSkewSec |-> 0]

NextAccept ==
    \/ MediaConnect
    \/ \E c \in {"none", "call-1"}, t \in {"none", "tok-1", "tok-2"}, a \in BOOLEAN :
          HandleStartMessage(c, t, a)
    \/ \E t \in {"none", "tok-1", "tok-2"}, a \in BOOLEAN : HandleRawStart(t, a)
    \/ StopMessage
    \/ MediaWsClose
    \/ RtWsOpen
    \/ RtWsClose

SpecAccept == InitAccept /\ [][NextAccept]_vars

\* management API requests of an adapter, with or without a service account
InitApi ==
    /\ InitStream
    /\ rtMode = "conversation"
    /\ InitCall("active")
    /\ InitAssistant
    /\ InitAdapterMaps
    /\ InitOutcome
    /\ InitGateway
    /\ options = [skipVerification |-> FALSE, webhookSecret |-> <<"a", "b">>]
    /\ streamConfig = [resolveCallIdByToken |-> TRUE, shouldAcceptStream |-> TRUE]
    /\ InitJwt
    /\ jwtConfig \in [serviceAccount : BOOLEAN, refreshSkewSec : {0, StepSec}]

NextApi ==
    \/ Tick
    \/ ApiRequestStart
    \/ \E status \in {200, 401, 500} : ApiResponse(status)

SpecApi == InitApi /\ [][NextApi]_vars

\* tool verbs on a call whose control URLs come and go with the webhooks
ControlEvents ==
    { ev \in [bodyOk : {TRUE},
              type : {"call.answered"},
              providerCallId : {"vox-1", "vox-2"},
              callId : {"call-1", "call-2"},
              controlUrl : {"url-1", "url-2"}] :
        ev.providerCallId = VerbProviderCallId \/ ev.callId = VerbCallId }

InitControl ==
    /\ InitStream
    /\ rtMode = "conversation"
    /\ InitCall("active")
    /\ InitAssistant
    /\ InitAdapterMaps
    /\ InitOutcome
    /\ InitGateway
    /\ streamConfig = [resolveCallIdByToken |-> TRUE, shouldAcceptStream |-> TRUE]
    /\ InitJwt
    /\ jwtConfig = [serviceAccount |-> TRUE, refreshSkewSec |-> 0]
    /\ options = [skipVerification |-> FALSE, webhookSecret |-> <<"a", "b">>]

NextControl ==
    \/ \E ev \in ControlEvents : HandleWebhook(<<"a", "b">>, ev)
    \/ GetStreamAuthToken(VerbCallId, <<"a", "b">>)
    \/ RegisterCallStream(VerbCallId, "stream-1")
    \/ HangupCall(VerbCallId, VerbProviderCallId)
    \/ \E hasTts \in BOOLEAN : PlayTts(VerbCallId, VerbProviderCallId, hasTts)
    \/ \E verb \in {"start_listening", "stop_listening"} :
          Listening(verb, VerbCallId, VerbProviderCallId)
    \/ \E status \in {0, 200, 500} : ControlResponse(status)

SpecControl == InitControl /\ [][NextControl]_vars

\* hook requests of several clients, with and without the token
InitHookAuth == InitTts

NextHookAuth ==
    \/ \E clientKey \in HookClients : HookAuthFailure(clientKey)
    \/ \E clientKey \in HookClients : HookAuthSuccess(clientKey)
    \/ HookTick

SpecHookAuth == InitHookAuth /\ [][NextHookAuth]_vars

\* requests proxied to the voice-call webhook server
NextProxy ==
    \/ ProxyRequest
    \/ \E status \in UpstreamStatuses : UpstreamResponse(status)
    \/ UpstreamData
    \/ UpstreamEnd
    \/ \E kind \in {"error", "timeout"} : UpstreamError(kind)
    \/ ClientAborted

SpecProxy == InitTts /\ [][NextProxy]_vars

\* the end of a call and the delivery of its outcome
NextOutcome ==
    \/ \E to \in CallStates : CallEndEvent(to)
    \/ \E outcome \in LlmOutcomes : LlmSummaryDone(outcome)
    \/ \E ok \in BOOLEAN : SendDone(ok)

SpecOutcome == InitTts /\ [][NextOutcome]_vars

\* calls started concurrently, ended, and the runtime stopped under them
NextRuntime ==
    \/ \E c \in CallIds : InitiateCall(c)
    \/ \E c \in CallIds, ok \in BOOLEAN : ProviderInitiated(c, ok)
    \/ \E c \in CallIds : CallEnds(c)
    \/ \E hasTunnel \in BOOLEAN : StopExposure(hasTunnel)
    \/ \E drains \in BOOLEAN : StopServer(drains)

SpecRuntime == InitTts /\ [][NextRuntime]_vars

\* the calendar links of the bookings
NextCalendar == \E booking \in Bookings : BuildCalendarUrl(booking)

SpecCalendar == InitTts /\ [][NextCalendar]_vars

\* the tasks of the dial-out prompt
NextTask == \E text \in AllTasks : ComposeTask(text)

SpecTask == InitTts /\ [][NextTask]_vars

\* the end reasons of call.ended events
NextMapped == \E raw \in RawReasons : MapReason(raw)

SpecMapped == InitTts /\ [][NextMapped]_vars

\* the history asked of the tool
NextHistory == GetCallHistoryTool

SpecHistory == InitTts /\ [][NextHistory]_vars

\* the messages of one media connection
NextConn ==
    \/ BinaryMessage
    \/ \E encoding \in StartEncodings : StartMessage(encoding)
    \/ ResumeHandler
    \/ ConnStopMessage

SpecConn == InitTts /\ [][NextConn]_vars

\* a call with a stream token and a registered stream that ends, by hangupCall
\* or by a call.ended webhook
EndEvents ==
    [bodyOk : {TRUE},
     type : {"call.answered", "call.ended"},
     providerCallId : {VerbProviderCallId},
     callId : {"none", VerbCallId},
     controlUrl : {"none", "url-1"}]

NextCallEnd ==
    \/ \E ev \in EndEvents : HandleWebhook(<<"a", "b">>, ev)
    \/ GetStreamAuthToken(VerbCallId, <<"a", "b">>)
    \/ RegisterCallStream(VerbCallId, "stream-1")
    \/ HangupCall(VerbCallId, VerbProviderCallId)
    \/ \E callKey \in {VerbCallId, VerbProviderCallId} :
          CheckStreamToken(callKey, <<"a", "b">>)
    \/ \E status \in {0, 200, 500} : ControlResponse(status)

SpecCallEnd == InitControl /\ [][NextCallEnd]_vars

\* overlapping waitForTranscript calls on one realtime session
NextTranscriptWait ==
    \/ WaitForTranscript
    \/ \E w \in Waiters : TranscriptTimeout(w)
    \/ \E hasText \in BOOLEAN : TranscriptionCompleted(hasText)

SpecTranscriptWait == InitTts /\ [][NextTranscriptWait]_vars

\* ------------------------------------------------------------- claims
InQueue(o) == \E i \in 1..Len(ttsQueue) : ttsQueue[i] = o

Settled(o) == promise[o] \in {"resolved", "rejected"}

\* dropped from the queue without having been invoked or settled
Dropped(o) == promise[o] = "pending" /\ pc[o] = "idle" /\ ~InQueue(o)

Cancelled(o) == o \in aborted \/ Dropped(o)

\* C1: at most one playFn of the stream is executing at any time, whatever
\* the interleaving of queueTts, clearTtsQueue and stream stop / close.
C1_AtMostOnePlaying == Cardinality(Running) <= 1

\* C2: after clearTtsQueue, the promise of the in-flight entry and of every
\* entry that was still queued resolves (none rejects, none is left pending
\* once nothing is running any more), and no entry that was queued at the
\* call has its playFn invoked.
C2_ClearedPromisesResolve ==
    [][ /\ \A o \in clearedOps : pc[o] = "idle" => pc'[o] = "idle"
        /\ \A o \in clearedOps : promise'[o] \in {"pending", "resolved"}
        /\ (Running' = {} => clearedOps' = {}) ]_vars

\* C3: once clearTtsQueue has been called, no further media frame of an
\* entry enqueued before the call is written to the stream.
C3_NoFramesAfterClear ==
    [][ \A o \in clearedOps : frames'[o] = frames[o] ]_vars

\* C4: entries start and complete in enqueue order: when an entry starts or
\* settles, every earlier entry has settled or been cancelled.
C4_EnqueueOrder ==
    [][ \A o \in Ops :
          ( \/ (pc[o] = "idle" /\ pc'[o] # "idle")
            \/ (promise[o] = "pending" /\ promise'[o] # "pending") )
          => \A e \in 1..(o - 1) : Settled(e)' \/ Cancelled(e)' ]_vars

\* C5: when the playFn of an entry whose signal is not aborted throws, the
\* entry's promise rejects and processQueue goes on to the next queued entry:
\* the head of the queue is started in the same turn and the entries behind
\* it stay queued.
C5_FailureRejectsAndProceeds ==
    [][ \A o \in Ops :
          (pc[o] \in {"synth", "sleep"} /\ pc'[o] = "threw" /\ o \notin aborted)
          => /\ promise'[o] = "rejected"
             /\ ttsQueue # <<>> =>
                  /\ pc'[Head(ttsQueue)] = "synth"
                  /\ promise'[Head(ttsQueue)] = "pending"
                  /\ ttsQueue' = Tail(ttsQueue) ]_vars

C5_Witness ==
    \E o \in Ops, n \in Ops :
        /\ o < n
        /\ pc[o] = "threw" /\ promise[o] = "rejected"
        /\ pc[n] = "returned" /\ promise[n] = "resolved" /\ frames[n] > 0

\* C6: in conversation mode no reconnect is attempted, and once the realtime
\* socket has closed unexpectedly the session never has a socket again.
C6_NoReconnectInConversation ==
    [][ rtMode = "conversation" =>
          /\ ~reconnecting'
          /\ rtWs = "closed" => rtWs' \in {"closed", "none"} ]_vars

C6_Witness ==
    rtMode = "conversation" /\ rtWs = "closed" /\ closed /\ connectPromise = "resolved"

\* C7: in conversation mode, when the realtime socket closes while the call
\* is active, the call eventually becomes failed with endReason
\* "realtime-disconnected".
C7_LostConversationFailsCall ==
    (rtMode = "conversation" /\ rtWs = "closed" /\ connectPromise = "resolved"
        /\ callState = "active")
    ~> (callState = "failed" /\ endReason = "realtime-disconnected")

\* C8: the media socket and the realtime session close together: the turn
\* that closes the media socket of a session closes its realtime session, the
\* turn in which the realtime session closes on its socket's close closes the
\* media socket, and both transition the call.
C8_CloseTogether ==
    [][ /\ (hasSession /\ mediaWs = "open" /\ mediaWs' = "closed")
            => (closed' /\ callState' # "active")
        /\ (hasSession /\ rtWs = "open" /\ rtWs' = "closed" /\ closed')
            => (mediaWs' = "closed" /\ callState' # "active") ]_vars

\* C9 (as stated): in conversation mode connect() resolves only after
\* session.updated has been received or the 5 s bound has expired.
C9_ConnectWaitsForAck ==
    (rtMode = "conversation" /\ connectPromise = "resolved")
        => (acked \/ timer5 = "fired")

\* C9 (amended): in conversation mode connect() resolves when the socket
\* opens, after session.update has been written to it; it does not wait for
\* session.updated or for the 5 s bound.
C9_ConnectResolvesAtOpen ==
    (rtMode = "conversation" /\ connectPromise = "resolved")
        => "session.update" \in sentEvents

C9_Witness ==
    /\ rtMode = "conversation" /\ connectPromise = "resolved"
    /\ rtWs = "open" /\ ~acked /\ timer5 = "armed"

\* C10: in conversation mode response.create is on the wire only if
\* session.updated has arrived or the 5 s timer has fired, and it is never
\* written once the session is closed.
C10_FirstResponseAfterAck ==
    [][ /\ "response.create" \in sentEvents' => (acked' \/ timer5' = "fired")
        /\ (closed /\ closed' /\ "response.create" \notin sentEvents)
             => "response.create" \notin sentEvents' ]_vars

C10_Witness ==
    /\ rtMode = "conversation" /\ "response.create" \in sentEvents
    /\ acked /\ timer5 = "armed"

C12_BoundedBackoff ==
    [][ rtMode = "transcription" =>
          /\ attemptsMade' <= 5
          /\ (~reconnecting /\ reconnecting') =>
                 reconnectDelay' = 1000 * 2 ^ attemptsMade
          /\ (attemptsMade' = 5 /\ rtWs' = "closed") => ~reconnecting' ]_vars

\* the fifth reconnect attempt in a row has failed and the session is left alone
C12_Witness ==
    /\ rtMode = "transcription"
    /\ attemptsMade = 5
    /\ rtWs = "closed"
    /\ ~closed
    /\ ~reconnecting
    /\ reconnectDelay = 16000

C15_TokenCheckTotal ==
    /\ tokenCheck.result = "true" =>
          tokenCheck.token = streamAuthTokens[tokenCheck.callKey]
    /\ tokenCheck.result # "throw"

\* C13: a webhook request that does not pass verification (verification is on
\* and the request does not carry the configured secret) is answered 401, is
\* not passed to parseWebhookEvent, and changes neither the call record nor the
\* adapter's bookkeeping maps.
C13_UnverifiedWebhookInert ==
    [][ webhookResult'.odd # webhookResult.odd =>
        /\ (~options.skipVerification
            /\ (options.webhookSecret = <<>>
                \/ webhookResult'.provided # options.webhookSecret))
           => ~webhookResult'.ok
        /\ ~webhookResult'.ok =>
              /\ webhookResult'.status = 401
              /\ ~webhookResult'.parsed
              /\ adapterMaps' = adapterMaps
              /\ callVars' = callVars ]_vars

\* a request with a wrong secret of the right length was refused after earlier
\* requests had been accepted
C13_Witness ==
    /\ ~webhookResult.ok
    /\ webhookResult.status = 401
    /\ webhookResult.provided # <<>>
    /\ Len(webhookResult.provided) = Len(options.webhookSecret)
    /\ callState = "completed"
    /\ providerCallIdToControlUrl["vox-1"] = "url-1"
    /\ streamAuthTokens["vox-1"] # <<>>

\* C14 as stated: a connection gets a session only if a callId was resolved and
\* shouldAcceptStream accepted it; otherwise it is closed with 1008, no session.
C14_SessionOnlyIfAccepted ==
    [][ startOutcome'.odd # startOutcome.odd =>
          IF startOutcome'.callId # "none" /\ startOutcome'.accepted
          THEN hasSession' /\ rtWs' = "connecting" /\ mediaWs' = "open"
               /\ startOutcome'.code = 0
          ELSE ~hasSession' /\ rtVars' = rtVars /\ mediaWs' = "closed"
               /\ startOutcome'.code = 1008 ]_vars

\* C14 amended: a connection gets a session only if a callId was resolved and
\* shouldAcceptStream, when the handler is configured with one, accepted it;
\* otherwise it is closed with 1008 and no session is created.
C14_SessionOnlyIfNotRejected ==
    [][ startOutcome'.odd # startOutcome.odd =>
          IF /\ startOutcome'.callId # "none"
             /\ (streamConfig.shouldAcceptStream => startOutcome'.accepted)
          THEN hasSession' /\ rtWs' = "connecting" /\ mediaWs' = "open"
               /\ startOutcome'.code = 0
          ELSE ~hasSession' /\ rtVars' = rtVars /\ mediaWs' = "closed"
               /\ startOutcome'.code = 1008 ]_vars

\* a stream whose call was resolved is refused because shouldAcceptStream said no
C14_Witness ==
    /\ streamConfig.shouldAcceptStream
    /\ startOutcome.callId = "call-1"
    /\ ~startOutcome.accepted
    /\ startOutcome.code = 1008
    /\ mediaWs = "closed"
    /\ ~hasSession

\* C16: in service-account mode a 401 makes the request generate a new JWT and
\* re-send once; the second response ends the call whatever it is, a 401 as an
\* error; one API call makes at most two HTTP requests.
C16_RetryOnceOn401 ==
    [][ /\ api'.requests <= 2
        /\ (api.pc = "await1" /\ api' # api) =>
              IF jwtConfig.serviceAccount /\ api'.first = 401
              THEN /\ api'.pc = "await2"
                   /\ api'.requests = 2
                   /\ lastJwtCall'.odd # lastJwtCall.odd
                   /\ lastJwtCall'.forced
                   /\ lastJwtCall'.token = <<"jwt", now>>
                   /\ cachedManagementJwt' = GenerateManagementJwt(now)
              ELSE /\ api'.pc = "idle"
                   /\ api'.requests = 1
                   /\ lastJwtCall' = lastJwtCall
        /\ (api.pc = "await2" /\ api' # api) =>
              /\ api'.pc = "idle"
              /\ api'.requests = 2
              /\ lastJwtCall' = lastJwtCall
              /\ (api'.last = 401 => api'.result = "error") ]_vars

\* a request was answered 401 twice: two requests, an error, the token rotated
C16_Witness ==
    /\ jwtConfig.serviceAccount
    /\ api = [pc |-> "idle", requests |-> 2, first |-> 401, last |-> 401,
              result |-> "error"]
    /\ lastJwtCall.forced
    /\ lastJwtCall.token = cachedManagementJwt[1]
    /\ lastJwtCall.at > 0

\* C17 as stated: in service-account mode two consecutive getManagementJwt()
\* calls without forced refresh, less than 3600 - refreshSkewSec seconds apart,
\* return the same token.
C17_SameTokenWithinWindow ==
    [][ ( /\ jwtConfig.serviceAccount
          /\ lastJwtCall'.odd # lastJwtCall.odd
          /\ lastJwtCall.token # <<>>
          /\ ~lastJwtCall.forced
          /\ ~lastJwtCall'.forced
          /\ lastJwtCall'.at - lastJwtCall.at < 3600 - jwtConfig.refreshSkewSec )
        => lastJwtCall'.token = lastJwtCall.token ]_vars

\* C17 amended: two consecutive getManagementJwt() calls without forced refresh
\* return the same token when the second is made less than
\* 3600 - refreshSkewSec seconds after that token was generated.
C17_SameTokenUntilRefresh ==
    [][ ( /\ jwtConfig.serviceAccount
          /\ lastJwtCall'.odd # lastJwtCall.odd
          /\ lastJwtCall.token # <<>>
          /\ ~lastJwtCall.forced
          /\ ~lastJwtCall'.forced
          /\ lastJwtCall'.at - lastJwtCall.token[2] < 3600 - jwtConfig.refreshSkewSec )
        => lastJwtCall'.token = lastJwtCall.token ]_vars

\* a call without forced refresh returned a token generated earlier, when
\* one more step of the clock would have made it refresh
C17_Witness ==
    /\ jwtConfig.serviceAccount
    /\ jwtConfig.refreshSkewSec > 0
    /\ ~lastJwtCall.forced
    /\ lastJwtCall.token # <<>>
    /\ lastJwtCall.token[2] < lastJwtCall.at
    /\ lastJwtCall.at - lastJwtCall.token[2] + StepSec >= 3600 - jwtConfig.refreshSkewSec
    /\ api.pc = "await1"

\* C18: a control command is posted to the URL stored for the providerCallId if
\* there is one, otherwise to the one stored for the callId; with neither the
\* command fails with NoControlUrl and no HTTP request is sent.
C18_ControlUrlChoice ==
    [][ /\ control'.posts <= 1
        /\ (control'.odd # control.odd /\ control'.result \in {"none", "NoControlUrl"}) =>
              LET byProvider == providerCallIdToControlUrl[VerbProviderCallId]
                  byCall == callIdToControlUrl[VerbCallId]
              IN IF byProvider # "none"
                 THEN control'.pc = "await" /\ control'.posts = 1
                      /\ control'.url = byProvider
                 ELSE IF byCall # "none"
                 THEN control'.pc = "await" /\ control'.posts = 1
                      /\ control'.url = byCall
                 ELSE control'.pc = "idle" /\ control'.posts = 0
                      /\ control'.result = "NoControlUrl"
        /\ (control' # control /\ control'.odd = control.odd) =>
              /\ control.pc = "await"
              /\ control'.posts = control.posts
              /\ control'.url = control.url ]_vars

\* a command went to the providerCallId's URL while the callId had another one
C18_Witness ==
    /\ control.pc = "await"
    /\ control.posts = 1
    /\ control.url = providerCallIdToControlUrl[VerbProviderCallId]
    /\ callIdToControlUrl[VerbCallId] \notin {"none", control.url}

\* a command went to the callId's URL, the providerCallId having none
C18_WitnessFallback ==
    /\ control.pc = "await"
    /\ providerCallIdToControlUrl[VerbProviderCallId] = "none"
    /\ control.url = callIdToControlUrl[VerbCallId]

\* C19: a tool verb that fails with NoControlUrl or ProviderError leaves the
\* call as it was: no transition, and nothing the adapter records about the
\* call changed by the verb.
C19_FailedVerbLeavesCall ==
    [][ (control' # control /\ control'.result \in {"NoControlUrl", "ProviderError"}) =>
          /\ callVars' = callVars
          /\ adapterMaps' = adapterMaps
          /\ ~control'.changed ]_vars

\* C26 as stated: within one 60-second window the first LIMIT requests with an
\* invalid token from a client key are answered 401 and every later one 429 with
\* Retry-After of at least 1 second, whatever other client keys do.
C26_ThrottleAfterLimit ==
    [][ (hookResult'.odd # hookResult.odd /\ hookResult'.status # 200) =>
          IF observed'.n <= HOOK_AUTH_FAILURE_LIMIT
          THEN hookResult'.status = 401
          ELSE hookResult'.status = 429 /\ hookResult'.retryAfter >= 1 ]_vars

\* C26 amended: the same, for a client key whose entry has not been dropped from
\* the failure map to make room for a new key.
C26_ThrottleAfterLimitWhileTracked ==
    [][ ( /\ hookResult'.odd # hookResult.odd
          /\ hookResult'.status # 200
          /\ ~observed'.evicted ) =>
          IF observed'.n <= HOOK_AUTH_FAILURE_LIMIT
          THEN hookResult'.status = 401
          ELSE hookResult'.status = 429 /\ hookResult'.retryAfter >= 1 ]_vars

\* the observed client is throttled at the end of its window, the map being
\* full of the failures of others made since
C26_Witness ==
    /\ hookResult.status = 429
    /\ hookResult.retryAfter = 1
    /\ observed.n = HOOK_AUTH_FAILURE_LIMIT + 1
    /\ ~observed.evicted
    /\ Len(hookAuthFailures) = HOOK_AUTH_FAILURE_TRACK_MAX
    /\ hookNowMs > observed.start

\* C27: a request with a valid token is accepted even while its client key is
\* throttled and removes the key from the failure map; the next invalid request
\* of the key is the first failure of a new window (401, count 1, window
\* starting now).
C27_SuccessClears ==
    [][ hookResult'.odd # hookResult.odd =>
        /\ hookResult'.status = 200 => ~HasFailure(hookAuthFailures', ObservedClient)
        /\ hookResult'.afterClear =>
              /\ hookResult'.status = 401
              /\ FailureOf(hookAuthFailures', ObservedClient) =
                    [key |-> ObservedClient, count |-> 1,
                     windowStartedAtMs |-> hookNowMs] ]_vars

\* a throttled client was let in with the token and then failed once, still
\* inside what had been its window
C27_Witness ==
    /\ hookResult.afterClear
    /\ hookResult.status = 401
    /\ hookNowMs < HOOK_AUTH_FAILURE_WINDOW_MS

\* C28: the failure map never holds more than TRACK_MAX client keys, each once.
C28_FailureMapBounded ==
    /\ Len(hookAuthFailures) <= HOOK_AUTH_FAILURE_TRACK_MAX
    /\ \A i, j \in 1..Len(hookAuthFailures) :
          hookAuthFailures[i].key = hookAuthFailures[j].key => i = j

\* the map is full again after live entries were dropped for a new key
C28_Witness ==
    /\ observed.evicted
    /\ Len(hookAuthFailures) = HOOK_AUTH_FAILURE_TRACK_MAX
    /\ ~HasFailure(hookAuthFailures, ObservedClient)

\* C21: once the state of a call record is terminal, endedAt is set and the
\* state (with endReason and endedAt) never changes again, whatever is asked.
C21_TerminalIsFinal ==
    [][ /\ callState' \in TerminalStates => endedAt' # 0
        /\ callState \in TerminalStates =>
              /\ callState' = callState
              /\ endReason' = endReason
              /\ endedAt' = endedAt ]_vars

\* a call ended by a timeout while ringing was asked to change again
C21_Witness ==
    /\ stateHistory = <<"initiating", "ringing", "timeout">>
    /\ endedAt = 2
    /\ transitionError

\* C22: the on-call-ended hook is invoked exactly once for a call, when it
\* ends, however many terminal events follow.
C22_HookOnce ==
    endedHookCalls = IF callState \in TerminalStates THEN 1 ELSE 0

\* a call hung up by the user; a further terminal event was rejected
C22_Witness ==
    /\ stateHistory = <<"initiating", "ringing", "answered", "active", "ending",
                        "hangup-user">>
    /\ endedHookCalls = 1
    /\ transitionError

\* C29: proxyVoiceCallHttpRequest always settles by resolving: every upstream
\* error or timeout answers 502 "Bad Gateway" when no headers have been sent
\* (and leaves the response alone otherwise) and resolves; the end of the
\* upstream response and the client's abort resolve; once resolved it stays so.
C29_ProxyResolves ==
    [][ proxy' # proxy =>
        /\ proxy'.promise \in {"pending", "resolved"}
        /\ proxy'.last \in {"error", "timeout"} =>
              /\ proxy'.promise = "resolved"
              /\ IF proxy.headersSent
                 THEN proxy'.statusCode = proxy.statusCode /\ proxy'.body = proxy.body
                 ELSE proxy'.statusCode = 502 /\ proxy'.body = "Bad Gateway"
        /\ proxy'.last \in {"end", "aborted"} => proxy'.promise = "resolved"
        /\ proxy'.promise = "pending" => proxy'.upstream \in {"open", "headers"}
        /\ (proxy.promise = "resolved" /\ proxy'.last # "request") =>
              proxy'.promise = "resolved" ]_vars

\* the upstream answered 200 and then fell silent until the timeout
C29_Witness ==
    /\ proxy.last = "timeout"
    /\ proxy.upstreamStatus = 200
    /\ proxy.statusCode = 502
    /\ proxy.body = "Bad Gateway"
    /\ proxy.promise = "resolved"

\* C23: the records in non-terminal states never exceed maxConcurrentCalls: an
\* initiateCall made while that many are live, some of them still being
\* placed by invocations in flight, returns TooManyCalls and creates no record.
C23_CapRespected ==
    [][ /\ Cardinality(LiveCalls(calls')) <= MaxConcurrentCalls
        /\ (/\ lastInitiate'.odd # lastInitiate.odd
            /\ Cardinality(LiveCalls(calls)) >= MaxConcurrentCalls) =>
              /\ lastInitiate'.result = "TooManyCalls"
              /\ calls' = calls
        /\ (/\ lastInitiate'.odd # lastInitiate.odd
            /\ Cardinality(LiveCalls(calls)) < MaxConcurrentCalls) =>
              /\ lastInitiate'.result = "created"
              /\ Cardinality(LiveCalls(calls')) = Cardinality(LiveCalls(calls)) + 1
      ]_vars

\* an initiateCall was refused while the invocations that filled the cap were
\* all still waiting for the provider
C23_Witness ==
    /\ lastInitiate.result = "TooManyCalls"
    /\ Cardinality({c \in CallIds : calls[c] = "starting"}) = MaxConcurrentCalls
    /\ Cardinality({c \in CallIds : calls[c] = "absent"}) >= 1

\* C24: the end of a call that has a sessionKey is delivered exactly once: by
\* one chat message and no system event when a chat id resolves from the
\* sessionKey or from messageTo, else by one system event under the context
\* key voice-call:<callId>:ended and no chat message.
C24_OneDelivery ==
    LET has == delivery.sessionKey \notin {"none", "blank"}
        chat == \/ delivery.sessionKey = "telegram-dm"
                \/ delivery.messageTo \in {"telegram-short", "telegram-typed"}
    IN /\ delivery.messages + delivery.events <= 1
       /\ callState \in TerminalStates => delivery.pc # "idle"
       /\ delivery.pc = "summarizing" =>
             has /\ chat /\ delivery.messages = 0 /\ delivery.events = 0
       /\ delivery.pc = "sending" =>
             has /\ chat /\ delivery.messages = 1 /\ delivery.events = 0
       /\ (delivery.pc = "done" /\ has /\ chat) =>
             /\ delivery.messages = 1
             /\ delivery.events = 0
             /\ delivery.contextKey = "none"
       /\ (delivery.pc = "done" /\ has /\ ~chat) =>
             /\ delivery.events = 1
             /\ delivery.messages = 0
             /\ delivery.contextKey = "voice-call:call-1:ended"

\* the chat id came from messageTo, the sessionKey having none
C24_Witness ==
    /\ callState \in TerminalStates
    /\ delivery.pc = "done"
    /\ delivery.sessionKey = "main"
    /\ delivery.messageTo = "telegram-short"
    /\ delivery.messages = 1
    /\ delivery.events = 0

\* C25: when the LLM summary fails (request error, response not ok, the 15 s
\* timeout, no API key) the chat message is still sent, with the summary built
\* from the template, and the failure is logged.
C25_TemplateOnLlmFailure ==
    [][ (/\ delivery.pc = "summarizing"
         /\ delivery'.pc # "summarizing"
         /\ delivery'.llm \in {"request-error", "non-ok", "timeout", "no-key"}) =>
           /\ delivery'.messages = delivery.messages + 1
           /\ delivery'.summary = "template"
           /\ delivery'.warns = delivery.warns + 1
           /\ delivery'.events = 0
      ]_vars

\* the summary request timed out and the template went out
C25_Witness ==
    /\ delivery.llm = "timeout"
    /\ delivery.summary = "template"
    /\ delivery.messages = 1
    /\ delivery.pc = "done"

\* C30: stop() drains the calls in flight before it tears the tunnel down and
\* closes the server: no call is in a non-terminal state when the tunnel has
\* been stopped or the server closed by stop().
C30_DrainsBeforeTeardown ==
    /\ runtime.tunnelStopped => runtime.liveAtTunnelStop = 0
    /\ runtime.pc = "closed" => runtime.liveAtClose = 0

\* what a reader of the dates value sees: the two local date-times, each
\* YYYYMMDDTHHMMSS, as minutes since the first of January of the first year
\* tried; a text that names no calendar date-time reads as nothing
DatePart(text, from, to) == NumberOf(SubSeq(text, from, to))
IsDateTimeText(text) ==
    /\ Len(text) = 15
    /\ text[9] = "T"
    /\ AllDigits(SubSeq(text, 1, 8) \o SubSeq(text, 10, 15))
    /\ DatePart(text, 5, 6) \in 1..12
    /\ DatePart(text, 7, 8) \in 1..DaysInMonth(DatePart(text, 1, 4), DatePart(text, 5, 6))
    /\ DatePart(text, 10, 11) < 24
    /\ DatePart(text, 12, 13) < 60
    /\ DatePart(text, 14, 15) < 60

RECURSIVE DaysBeforeYear(_)
DaysBeforeYear(y) ==
    IF y <= 2024 THEN 0
    ELSE DaysBeforeYear(y - 1) + (IF IsLeapYear(y - 1) THEN 366 ELSE 365)

RECURSIVE DaysBeforeMonth(_, _)
DaysBeforeMonth(y, mo) ==
    IF mo <= 1 THEN 0 ELSE DaysBeforeMonth(y, mo - 1) + DaysInMonth(y, mo - 1)

MinutesOf(text) ==
    (DaysBeforeYear(DatePart(text, 1, 4))
       + DaysBeforeMonth(DatePart(text, 1, 4), DatePart(text, 5, 6))
       + DatePart(text, 7, 8) - 1) * 24 * 60
    + DatePart(text, 10, 11) * 60 + DatePart(text, 12, 13)

\* C31: for a confirmed booking with a YYYY-MM-DD date and an HH:MM time the
\* start and the end in the dates value are calendar date-times exactly
\* durationMinutes ?? 90 minutes apart, also across the end of a day, a month
\* or a year.
C31_IntervalIsDuration ==
    ~calendar.url.isNull =>
        LET dates == UrlDecode(calendar.url.dates)
            startText == SubSeq(dates, 1, 15)
            endText == SubSeq(dates, 17, Len(dates))
            duration == IF calendar.booking.hasDuration
                        THEN calendar.booking.durationMinutes ELSE 90
        IN /\ Len(dates) >= 16 /\ dates[16] = "/"
           /\ IsDateTimeText(startText)
           /\ IsDateTimeText(endText)
           /\ MinutesOf(endText) - MinutesOf(startText) = duration

EndReasonTable ==
    << [reason |-> "busy", keys |-> {<<"b", "u", "s", "y">>}],
       [reason |-> "no-answer", keys |-> {<<"n", "o", "-", "a", "n", "s", "w", "e", "r">>, <<"n", "o", " ", "a", "n", "s", "w", "e", "r">>}],
       [reason |-> "voicemail", keys |-> {<<"v", "o", "i", "c", "e", "m", "a", "i", "l">>}],
       [reason |-> "timeout", keys |-> {<<"t", "i", "m", "e", "o", "u", "t">>}],
       [reason |-> "hangup-user", keys |-> {<<"h", "a", "n", "g", "u", "p", "-", "u", "s", "e", "r">>, <<"u", "s", "e", "r">>}],
       [reason |-> "hangup-bot", keys |-> {<<"h", "a", "n", "g", "u", "p", "-", "b", "o", "t">>, <<"b", "o", "t">>}],
       [reason |-> "failed", keys |-> {<<"e", "r", "r", "o", "r">>, <<"f", "a", "i", "l">>}] >>

RowMatches(row, value) == \E key \in EndReasonTable[row].keys : Includes(value, key)

\* C33: mapEndReason gives the end reason of the first row of the table one
\* of whose substrings occurs in the lower-cased reason, and completed when
\* no row matches or the reason is empty or missing.
C33_FirstMatchInOrder ==
    mapped.done =>
        LET value == ToLowerCase(mapped.raw.text)
            rows == {r \in 1..Len(EndReasonTable) : RowMatches(r, value)}
        IN IF ~mapped.raw.present \/ rows = {}
           THEN mapped.reason = "completed"
           ELSE \E r \in rows :
                   /\ \A q \in rows : r <= q
                   /\ mapped.reason = EndReasonTable[r].reason

\* a reason that names a timeout and a busy line: the earlier row wins
C33_Witness ==
    /\ mapped.done
    /\ Includes(mapped.raw.text, <<"t", "i", "m", "e", "o", "u", "t">>)
    /\ Includes(mapped.raw.text, <<"b", "u", "s", "y">>)
    /\ mapped.reason = "busy"

C35_AckReflectsEncoding ==
    \A n \in 1..Len(conn.acks) : conn.acks[n] = conn.starts[n]

\* C37: on one connection at most one stream session is created and onConnect
\* is called at most once, also when messages arrive while a start is being
\* handled.
C37_OneSessionPerConnection ==
    /\ conn.created <= 1
    /\ conn.onConnects <= 1

\* C36: every promise returned by queueTts settles in the end, also those of
\* the operations queued or in flight when the stream ends: the end of the
\* stream leaves no pending promise whose entry is neither queued nor in
\* flight, since only the queue's loop settles a promise.
C36_StreamEndSettlesPromises ==
    [][ (hasSession /\ ~hasSession') =>
          \A o \in Ops : promise'[o] = "pending" => (pc'[o] # "idle" \/ InQueue(o)') ]_vars

\* the step that ends the call: the call.ended webhook takes it to a terminal
\* state, or hangupCall runs for it
CallEndsByWebhook == callState \notin TerminalStates /\ callState' \in TerminalStates

CallEndsByHangup == control'.verb = "hangup" /\ control'.odd # control.odd

\* C38 as stated: once the call has ended, by hangupCall or by a call.ended
\* webhook, isValidStreamToken accepts no token under its callId or under its
\* providerCallId.
C38_TokenRevokedAtEnd ==
    [][ (CallEndsByWebhook \/ CallEndsByHangup) =>
          \A callKey \in {VerbCallId, VerbProviderCallId}, token \in GeneratedTokens :
             IsValidStreamToken(streamAuthTokens'[callKey], token) = "false" ]_vars

\* C40 as stated: when the call ends, by hangupCall or by a call.ended webhook,
\* none of the five bookkeeping maps of the adapter keeps an entry under its
\* callId or its providerCallId.
C40_BookkeepingRemovedAtEnd ==
    [][ (CallEndsByWebhook \/ CallEndsByHangup) =>
          \A callKey \in {VerbCallId, VerbProviderCallId} :
             /\ providerCallIdToControlUrl'[callKey] = "none"
             /\ callIdToControlUrl'[callKey] = "none"
             /\ providerCallIdToCallId'[callKey] = "none"
             /\ callStreamMap'[callKey] = "none"
             /\ streamAuthTokens'[callKey] = <<>> ]_vars

\* C39 as stated: once every waitForTranscript call made has settled, the
\* callback registered through onTranscript is the installed one, and no
\* transcript has been consumed by the callback of a call that had settled.
C39_CallbackRestored ==
    (transcriptWait.started > 0
       /\ \A w \in Waiters : transcriptWait.state[w] # "pending") =>
      /\ transcriptWait.callback = REGISTERED
      /\ ~transcriptWait.lateConsumed

====
